---------------------------- MODULE Spec2Model ----------------------------
(***************************************************************************)
(* CallSense: the supervisor's run_pipeline, the eight agents, the A2A     *)
(* message log and the long-term memory fold, as a state machine.          *)
(*                                                                         *)
(* Strings are TLA+ strings.  Python's string primitives (lower/in, strip, *)
(* re.sub, re.split, str.format) are tabulated on the finite universe of   *)
(* strings the model draws its inputs from; everything built on them (the  *)
(* agents, their fallbacks, the bus, the metrics) is translated from the   *)
(* code.  JSON values are tagged records.  A float (score, rate, running   *)
(* average) is named by the reduced fraction <<num, den>> it is the        *)
(* nearest binary64 double to, or by <<num, den, ulps>> when it lies that  *)
(* many units in the last place away from it.  The wall clock (start_ts,   *)
(* duration_sec) is not modelled.                                          *)
(*                                                                         *)
(* Spec is one run_pipeline call with the registry intact.  SpecRegistry   *)
(* is the same run with one agent unregistered.  SpecBus adds the direct   *)
(* callers of graph/a2a.py, SpecFold folds finished calls one after the    *)
(* other with eval/metrics.py, and SpecRace runs two such folds at once.   *)
(* SpecRuns calls run_pipeline again and again on the one GLOBAL_MEMORY.   *)
(***************************************************************************)
EXTENDS Integers, Sequences, FiniteSets, TLC

VARIABLES
    call_state,     \* the CallState of the current run_pipeline call
    memory,         \* supervisor.GLOBAL_MEMORY
    registry,       \* the names registered in agents.AGENT_REGISTRY
    tools,          \* which capabilities the caller supplied (llm, cleaner)
    update_memory,  \* run_pipeline's update_memory argument
    pc,             \* where run_pipeline is
    agent_i,        \* index into AGENT_EXECUTION_ORDER of the for loop
    waiting,        \* TRUE while the invoked agent is blocked in its capability call
    invoked,        \* history: the agents invoked so far, in order
    cap_log,        \* history: what each capability call of the run answered
    got,            \* what the last direct get_messages_for_agent call returned
    folded,         \* history: the CallStates folded into the memory by earlier calls
    folding         \* the unsynchronised update_memory_from_call calls in progress

\* what only the direct callers of a2a.py and metrics.py change
direct == <<got, folded, folding>>

vars == <<call_state, memory, registry, tools, update_memory, pc, agent_i,
          waiting, invoked, cap_log, got, folded, folding>>

-----------------------------------------------------------------------------
(* JSON values, as json.loads returns them *)

JNull == [t |-> "null"]

JStr(s) == [t |-> "str", s |-> s]

JNum(n) == [t |-> "num", n |-> n]

JList(items) == [t |-> "list", items |-> items]

JDict(d) == [t |-> "dict", d |-> d]

EmptyDict == [k \in {} |-> JNull]

\* dict.get(key) with the default None
DictGet(d, key) == IF key \in DOMAIN d THEN d[key] ELSE JNull

\* dict.get(key, default)
DictGetOr(d, key, default) == IF key \in DOMAIN d THEN d[key] ELSE default

\* Python truthiness of a JSON value
Truthy(v) ==
    CASE v.t = "null" -> FALSE
      [] v.t = "str"  -> v.s # ""
      [] v.t = "num"  -> v.n # 0
      [] v.t = "list" -> Len(v.items) > 0
      [] v.t = "dict" -> DOMAIN v.d # {}

\* whether a value can be a set member or a dict key (lists and dicts cannot)
Hashable(v) == v.t \in {"null", "str", "num"}

-----------------------------------------------------------------------------
(* The strings of the model *)

RAW_EMPTY == ""

RAW_BLANK == "   "

RAW_CALL == "My  credit card refund is late. [noise] This is unacceptable!"

CLEAN_CALL == "My credit card refund is late.  This is unacceptable!"

UTT_1 == "My credit card refund is late."

UTT_2 == "This is unacceptable!"

\* what a cleaner that does not echo its input may answer
CLEANER_BOILERPLATE == "No transcript provided."

NO_CONTENT_SUMMARY == "No transcript content was available to summarize."

UNCLEAR_PAIN_POINT == "unclear primary pain point"


RAW_CALL_SPACED == "My credit card refund is late. [noise] This is unacceptable!"

CLEAN_CALL_SHORT == "My credit card refund is late. This is unacceptable!"

-----------------------------------------------------------------------------
(* Python's string primitives, tabulated on the strings of the model *)

\* the keywords of the code's lists that are substrings of text.lower()
Occurs(text) ==
    CASE text \in {RAW_CALL, CLEAN_CALL, RAW_CALL_SPACED, CLEAN_CALL_SHORT}
                -> {"credit card", "refund", "unacceptable"}
      [] text \in {UTT_1, "refund related to credit card"}
                -> {"credit card", "refund"}
      [] text = UTT_2 -> {"unacceptable"}
      [] text \in {"refund", "Refund is late", "Refund is late "} -> {"refund"}
      [] text = "login" -> {"login"}
      [] text = "login related to mobile app" -> {"login", "mobile app"}
      [] text = "refund related to ['credit card', 'mobile app']"
                -> {"credit card", "mobile app", "refund"}
      [] text = "refund or chargeback delay" -> {"chargeback", "refund"}
      [] text = "customer is highly frustrated after multiple attempts"
                -> {"frustrated"}
      [] OTHER -> {}

\* kw in text.lower()
Contains(text, kw) == kw \in Occurs(text)

\* text.strip()
Strip(text) ==
    CASE text \in {RAW_BLANK, " "} -> ""
      [] text = "Refund is late " -> "Refund is late"
      [] OTHER -> text

\* re.sub(r"\s+", " ", text).strip()
NormalizeWhitespace(text) ==
    CASE text = RAW_BLANK -> ""
      [] text = RAW_CALL -> RAW_CALL_SPACED
      [] text = CLEAN_CALL -> CLEAN_CALL_SHORT
      [] OTHER -> Strip(text)

\* re.sub(r"\[(noise|music|silence)\]", "", text, flags=re.IGNORECASE)
RemoveArtifacts(text) ==
    CASE text = RAW_CALL_SPACED -> CLEAN_CALL
      [] OTHER -> text

\* re.split(r"(?<=[.!?])\s+", text)
SplitSentences(text) ==
    CASE text = CLEAN_CALL -> <<UTT_1, UTT_2>>
      [] text = CLEAN_CALL_SHORT -> <<UTT_1, UTT_2>>
      [] text = RAW_CALL -> <<"My  credit card refund is late.", "[noise] This is unacceptable!">>
      [] text = RAW_CALL_SPACED -> <<UTT_1, "[noise] This is unacceptable!">>
      [] OTHER -> <<text>>

\* textwrap.shorten(text, width=500, placeholder="..."): no string of the
\* model is longer than 500 characters, so it only collapses whitespace
Shorten(text) == NormalizeWhitespace(text)

\* str(v) of a JSON value inside an f-string
Format(v) ==
    CASE v.t = "str" -> v.s
      [] v.t = "null" -> "None"
      [] v.t = "list" -> "['credit card', 'mobile app']"
      [] OTHER -> "?"

\* the members of a sequence, in order, that satisfy Keep
RECURSIVE SelectOrdered(_, _)
SelectOrdered(seq, keep) ==
    IF seq = <<>> THEN <<>>
    ELSE IF Head(seq) \in keep
         THEN <<Head(seq)>> \o SelectOrdered(Tail(seq), keep)
         ELSE SelectOrdered(Tail(seq), keep)

\* the dedupe loops: first occurrences, order preserved
RECURSIVE Dedupe(_)
Dedupe(seq) ==
    IF seq = <<>> THEN <<>>
    ELSE LET rest == Dedupe(SubSeq(seq, 1, Len(seq) - 1))
             last == seq[Len(seq)]
         IN IF \E i \in 1..Len(rest) : rest[i] = last THEN rest
            ELSE Append(rest, last)

Range(seq) == {seq[i] : i \in 1..Len(seq)}

-----------------------------------------------------------------------------
(* Floats, as reduced fractions <<numerator, denominator>> *)

RECURSIVE GCD(_, _)
GCD(a, b) == IF b = 0 THEN a ELSE GCD(b, a % b)

Abs(x) == IF x < 0 THEN -x ELSE x

Frac(n, d) ==
    LET g == GCD(Abs(n), d) IN <<n \div g, d \div g>>

FZero == Frac(0, 1)

FOne == Frac(1, 1)

FHalf == Frac(1, 2)

\* Python's float arithmetic (IEEE-754 binary64, round to nearest even) on the
\* operands the running averages meet within MaxFolds + 1 folds of the scores
\* 0.4 and 0.8, one after the other or two at a time, and within MaxRuns + 1
\* folds of the scores 0.0, 0.5 and 1.0: <<operator, left,
\* right, result>>, as CPython computes them.
\* x - 0.0, x / 1.0 and 0.0 + x are exact and are not listed.
BINARY64 ==
    { <<"add", <<1, 1>>, <<-1, 2>>, <<1, 2>>>>,
      <<"add", <<1, 1>>, <<-1, 3>>, <<2, 3, 1>>>>,
      <<"add", <<1, 1>>, <<-1, 4>>, <<3, 4>>>>,
      <<"add", <<1, 1>>, <<-1, 6>>, <<5, 6>>>>,
      <<"add", <<1, 1>>, <<-1, 8>>, <<7, 8>>>>,
      <<"add", <<1, 1>>, <<0, 1>>, <<1, 1>>>>,
      <<"add", <<1, 2>>, <<-1, 4>>, <<1, 4>>>>,
      <<"add", <<1, 2>>, <<-1, 6>>, <<1, 3, 1>>>>,
      <<"add", <<1, 2>>, <<-1, 8>>, <<3, 8>>>>,
      <<"add", <<1, 2>>, <<0, 1>>, <<1, 2>>>>,
      <<"add", <<1, 2>>, <<1, 4>>, <<3, 4>>>>,
      <<"add", <<1, 2>>, <<1, 6>>, <<2, 3>>>>,
      <<"add", <<1, 2>>, <<1, 8>>, <<5, 8>>>>,
      <<"add", <<1, 3, 1>>, <<-1, 12, -1>>, <<1, 4>>>>,
      <<"add", <<1, 3, 1>>, <<1, 24, -1>>, <<3, 8>>>>,
      <<"add", <<1, 3, 1>>, <<1, 6>>, <<1, 2>>>>,
      <<"add", <<1, 3>>, <<-1, 12>>, <<1, 4>>>>,
      <<"add", <<1, 3>>, <<1, 24, 1>>, <<3, 8>>>>,
      <<"add", <<1, 3>>, <<1, 6, 1>>, <<1, 2>>>>,
      <<"add", <<1, 4>>, <<-1, 12>>, <<1, 6, 1>>>>,
      <<"add", <<1, 4>>, <<-1, 16>>, <<3, 16>>>>,
      <<"add", <<1, 4>>, <<1, 12>>, <<1, 3>>>>,
      <<"add", <<1, 4>>, <<1, 16>>, <<5, 16>>>>,
      <<"add", <<1, 4>>, <<1, 4>>, <<1, 2>>>>,
      <<"add", <<1, 4>>, <<3, 16>>, <<7, 16>>>>,
      <<"add", <<1, 5>>, <<1, 15>>, <<4, 15>>>>,
      <<"add", <<1, 5>>, <<1, 20>>, <<1, 4>>>>,
      <<"add", <<1, 5>>, <<1, 5, 1>>, <<2, 5>>>>,
      <<"add", <<1, 5>>, <<3, 10, 1>>, <<1, 2>>>>,
      <<"add", <<1, 5>>, <<3, 20, 1>>, <<7, 20, 1>>>>,
      <<"add", <<1, 5>>, <<3, 5, 1>>, <<4, 5>>>>,
      <<"add", <<1, 6, 1>>, <<-1, 24, -1>>, <<1, 8>>>>,
      <<"add", <<1, 6, 1>>, <<1, 12>>, <<1, 4>>>>,
      <<"add", <<1, 6, 1>>, <<5, 24, -1>>, <<3, 8>>>>,
      <<"add", <<1, 6>>, <<-1, 24>>, <<1, 8>>>>,
      <<"add", <<1, 6>>, <<1, 12, 1>>, <<1, 4>>>>,
      <<"add", <<1, 6>>, <<5, 24>>, <<3, 8>>>>,
      <<"add", <<2, 15>>, <<1, 15, 1>>, <<1, 5>>>>,
      <<"add", <<2, 15>>, <<1, 6, 1>>, <<3, 10, 1>>>>,
      <<"add", <<2, 3, 1>>, <<-1, 15, -1>>, <<3, 5, 1>>>>,
      <<"add", <<2, 3, 1>>, <<-1, 24, -3>>, <<5, 8>>>>,
      <<"add", <<2, 3, 1>>, <<-1, 6, -1>>, <<1, 2>>>>,
      <<"add", <<2, 3, 1>>, <<1, 12, -1>>, <<3, 4>>>>,
      <<"add", <<2, 3, 1>>, <<1, 30, -1>>, <<7, 10, 1>>>>,
      <<"add", <<2, 3>>, <<-1, 24, 1>>, <<5, 8>>>>,
      <<"add", <<2, 3>>, <<-1, 6>>, <<1, 2>>>>,
      <<"add", <<2, 3>>, <<1, 12, 1>>, <<3, 4>>>>,
      <<"add", <<2, 5>>, <<0, 1>>, <<2, 5>>>>,
      <<"add", <<2, 5>>, <<1, 10>>, <<1, 2>>>>,
      <<"add", <<2, 5>>, <<1, 5>>, <<3, 5, 1>>>>,
      <<"add", <<2, 5>>, <<2, 15>>, <<8, 15>>>>,
      <<"add", <<2, 5>>, <<2, 5>>, <<4, 5>>>>,
      <<"add", <<3, 4>>, <<-1, 12>>, <<2, 3>>>>,
      <<"add", <<3, 4>>, <<-1, 16>>, <<11, 16>>>>,
      <<"add", <<3, 4>>, <<-1, 4>>, <<1, 2>>>>,
      <<"add", <<3, 4>>, <<-3, 16>>, <<9, 16>>>>,
      <<"add", <<3, 4>>, <<1, 12>>, <<5, 6>>>>,
      <<"add", <<3, 4>>, <<1, 16>>, <<13, 16>>>>,
      <<"add", <<3, 5, 1>>, <<-1, 15, -2>>, <<8, 15, 1>>>>,
      <<"add", <<3, 5, 1>>, <<-1, 20, -2>>, <<11, 20>>>>,
      <<"add", <<3, 5, 1>>, <<1, 15, -1>>, <<2, 3, 1>>>>,
      <<"add", <<3, 5, 1>>, <<1, 20, -2>>, <<13, 20, 1>>>>,
      <<"add", <<4, 15>>, <<1, 30, 1>>, <<3, 10>>>>,
      <<"add", <<4, 15>>, <<2, 15, 1>>, <<2, 5>>>>,
      <<"add", <<4, 5>>, <<-1, 10>>, <<7, 10, 1>>>>,
      <<"add", <<4, 5>>, <<-1, 5>>, <<3, 5, 1>>>>,
      <<"add", <<4, 5>>, <<-2, 15>>, <<2, 3, 1>>>>,
      <<"add", <<4, 5>>, <<-2, 5>>, <<2, 5>>>>,
      <<"add", <<4, 5>>, <<0, 1>>, <<4, 5>>>>,
      <<"add", <<5, 6>>, <<-1, 12, -1>>, <<3, 4>>>>,
      <<"add", <<5, 6>>, <<-5, 24>>, <<5, 8>>>>,
      <<"add", <<5, 6>>, <<1, 24, -1>>, <<7, 8>>>>,
      <<"add", <<8, 15, 1>>, <<-1, 30, -3>>, <<1, 2, 1>>>>,
      <<"add", <<8, 15, 1>>, <<1, 15, -1>>, <<3, 5, 1>>>>,
      <<"add", <<8, 15>>, <<-1, 30, 1>>, <<1, 2>>>>,
      <<"add", <<8, 15>>, <<1, 15, 1>>, <<3, 5>>>>,
      <<"div", <<-1, 1>>, 2, <<-1, 2>>>>,
      <<"div", <<-1, 1>>, 3, <<-1, 3>>>>,
      <<"div", <<-1, 1>>, 4, <<-1, 4>>>>,
      <<"div", <<-1, 2>>, 2, <<-1, 4>>>>,
      <<"div", <<-1, 2>>, 3, <<-1, 6>>>>,
      <<"div", <<-1, 2>>, 4, <<-1, 8>>>>,
      <<"div", <<-1, 3, -1>>, 4, <<-1, 12, -1>>>>,
      <<"div", <<-1, 3>>, 4, <<-1, 12>>>>,
      <<"div", <<-1, 4>>, 3, <<-1, 12>>>>,
      <<"div", <<-1, 4>>, 4, <<-1, 16>>>>,
      <<"div", <<-1, 5, -2>>, 3, <<-1, 15, -2>>>>,
      <<"div", <<-1, 5, -2>>, 4, <<-1, 20, -2>>>>,
      <<"div", <<-1, 6, -1>>, 4, <<-1, 24, -1>>>>,
      <<"div", <<-1, 6, -3>>, 4, <<-1, 24, -3>>>>,
      <<"div", <<-1, 6, 1>>, 4, <<-1, 24, 1>>>>,
      <<"div", <<-1, 6>>, 4, <<-1, 24>>>>,
      <<"div", <<-2, 15, -3>>, 4, <<-1, 30, -3>>>>,
      <<"div", <<-2, 15, 1>>, 4, <<-1, 30, 1>>>>,
      <<"div", <<-2, 3, -1>>, 4, <<-1, 6, -1>>>>,
      <<"div", <<-2, 3>>, 4, <<-1, 6>>>>,
      <<"div", <<-2, 5>>, 2, <<-1, 5>>>>,
      <<"div", <<-2, 5>>, 3, <<-2, 15>>>>,
      <<"div", <<-2, 5>>, 4, <<-1, 10>>>>,
      <<"div", <<-3, 4>>, 3, <<-1, 4>>>>,
      <<"div", <<-3, 4>>, 4, <<-3, 16>>>>,
      <<"div", <<-4, 15, -1>>, 4, <<-1, 15, -1>>>>,
      <<"div", <<-5, 6>>, 4, <<-5, 24>>>>,
      <<"div", <<0, 1>>, 2, <<0, 1>>>>,
      <<"div", <<0, 1>>, 3, <<0, 1>>>>,
      <<"div", <<0, 1>>, 4, <<0, 1>>>>,
      <<"div", <<1, 1>>, 2, <<1, 2>>>>,
      <<"div", <<1, 1>>, 3, <<1, 3>>>>,
      <<"div", <<1, 1>>, 4, <<1, 4>>>>,
      <<"div", <<1, 2>>, 2, <<1, 4>>>>,
      <<"div", <<1, 2>>, 3, <<1, 6>>>>,
      <<"div", <<1, 2>>, 4, <<1, 8>>>>,
      <<"div", <<1, 3, -1>>, 4, <<1, 12, -1>>>>,
      <<"div", <<1, 3, 1>>, 4, <<1, 12, 1>>>>,
      <<"div", <<1, 3>>, 4, <<1, 12>>>>,
      <<"div", <<1, 4>>, 3, <<1, 12>>>>,
      <<"div", <<1, 4>>, 4, <<1, 16>>>>,
      <<"div", <<1, 5, -2>>, 3, <<1, 15, -1>>>>,
      <<"div", <<1, 5, -2>>, 4, <<1, 20, -2>>>>,
      <<"div", <<1, 5>>, 3, <<1, 15>>>>,
      <<"div", <<1, 5>>, 4, <<1, 20>>>>,
      <<"div", <<1, 6, -1>>, 4, <<1, 24, -1>>>>,
      <<"div", <<1, 6, 1>>, 4, <<1, 24, 1>>>>,
      <<"div", <<2, 15, -1>>, 4, <<1, 30, -1>>>>,
      <<"div", <<2, 15, 1>>, 4, <<1, 30, 1>>>>,
      <<"div", <<2, 3, 1>>, 4, <<1, 6, 1>>>>,
      <<"div", <<2, 3>>, 4, <<1, 6>>>>,
      <<"div", <<2, 5>>, 2, <<1, 5>>>>,
      <<"div", <<2, 5>>, 3, <<2, 15>>>>,
      <<"div", <<2, 5>>, 4, <<1, 10>>>>,
      <<"div", <<3, 4>>, 3, <<1, 4>>>>,
      <<"div", <<3, 4>>, 4, <<3, 16>>>>,
      <<"div", <<3, 5, 1>>, 2, <<3, 10, 1>>>>,
      <<"div", <<3, 5, 1>>, 3, <<1, 5, 1>>>>,
      <<"div", <<3, 5, 1>>, 4, <<3, 20, 1>>>>,
      <<"div", <<4, 15, -1>>, 4, <<1, 15, -1>>>>,
      <<"div", <<4, 15, 1>>, 4, <<1, 15, 1>>>>,
      <<"div", <<4, 5>>, 2, <<2, 5>>>>,
      <<"div", <<4, 5>>, 3, <<4, 15>>>>,
      <<"div", <<4, 5>>, 4, <<1, 5>>>>,
      <<"div", <<5, 6, -1>>, 4, <<5, 24, -1>>>>,
      <<"div", <<5, 6>>, 4, <<5, 24>>>>,
      <<"div", <<8, 15, 1>>, 4, <<2, 15, 1>>>>,
      <<"sub", <<0, 1>>, <<1, 1>>, <<-1, 1>>>>,
      <<"sub", <<0, 1>>, <<1, 2>>, <<-1, 2>>>>,
      <<"sub", <<0, 1>>, <<1, 3, 1>>, <<-1, 3, -1>>>>,
      <<"sub", <<0, 1>>, <<1, 3>>, <<-1, 3>>>>,
      <<"sub", <<0, 1>>, <<1, 4>>, <<-1, 4>>>>,
      <<"sub", <<0, 1>>, <<1, 6, 1>>, <<-1, 6, -1>>>>,
      <<"sub", <<0, 1>>, <<1, 6>>, <<-1, 6>>>>,
      <<"sub", <<0, 1>>, <<2, 3, 1>>, <<-2, 3, -1>>>>,
      <<"sub", <<0, 1>>, <<2, 3>>, <<-2, 3>>>>,
      <<"sub", <<0, 1>>, <<3, 4>>, <<-3, 4>>>>,
      <<"sub", <<0, 1>>, <<5, 6>>, <<-5, 6>>>>,
      <<"sub", <<1, 1>>, <<1, 1>>, <<0, 1>>>>,
      <<"sub", <<1, 1>>, <<1, 2>>, <<1, 2>>>>,
      <<"sub", <<1, 1>>, <<1, 3, 1>>, <<2, 3>>>>,
      <<"sub", <<1, 1>>, <<1, 3>>, <<2, 3, 1>>>>,
      <<"sub", <<1, 1>>, <<1, 4>>, <<3, 4>>>>,
      <<"sub", <<1, 1>>, <<1, 6, 1>>, <<5, 6, -1>>>>,
      <<"sub", <<1, 1>>, <<1, 6>>, <<5, 6>>>>,
      <<"sub", <<1, 1>>, <<2, 3, 1>>, <<1, 3, -1>>>>,
      <<"sub", <<1, 1>>, <<2, 3>>, <<1, 3, 1>>>>,
      <<"sub", <<1, 1>>, <<3, 4>>, <<1, 4>>>>,
      <<"sub", <<1, 1>>, <<5, 6>>, <<1, 6, -1>>>>,
      <<"sub", <<1, 2>>, <<1, 1>>, <<-1, 2>>>>,
      <<"sub", <<1, 2>>, <<1, 2>>, <<0, 1>>>>,
      <<"sub", <<1, 2>>, <<1, 3, 1>>, <<1, 6, -1>>>>,
      <<"sub", <<1, 2>>, <<1, 3>>, <<1, 6, 1>>>>,
      <<"sub", <<1, 2>>, <<1, 4>>, <<1, 4>>>>,
      <<"sub", <<1, 2>>, <<1, 6, 1>>, <<1, 3>>>>,
      <<"sub", <<1, 2>>, <<1, 6>>, <<1, 3, 1>>>>,
      <<"sub", <<1, 2>>, <<2, 3, 1>>, <<-1, 6, -3>>>>,
      <<"sub", <<1, 2>>, <<2, 3>>, <<-1, 6, 1>>>>,
      <<"sub", <<1, 2>>, <<3, 4>>, <<-1, 4>>>>,
      <<"sub", <<1, 2>>, <<5, 6>>, <<-1, 3, -1>>>>,
      <<"sub", <<2, 5>>, <<1, 5>>, <<1, 5>>>>,
      <<"sub", <<2, 5>>, <<2, 15>>, <<4, 15, 1>>>>,
      <<"sub", <<2, 5>>, <<2, 3, 1>>, <<-4, 15, -1>>>>,
      <<"sub", <<2, 5>>, <<2, 5>>, <<0, 1>>>>,
      <<"sub", <<2, 5>>, <<3, 5, 1>>, <<-1, 5, -2>>>>,
      <<"sub", <<2, 5>>, <<4, 15>>, <<2, 15, 1>>>>,
      <<"sub", <<2, 5>>, <<4, 5>>, <<-2, 5>>>>,
      <<"sub", <<2, 5>>, <<8, 15, 1>>, <<-2, 15, -3>>>>,
      <<"sub", <<2, 5>>, <<8, 15>>, <<-2, 15, 1>>>>,
      <<"sub", <<4, 5>>, <<1, 5>>, <<3, 5, 1>>>>,
      <<"sub", <<4, 5>>, <<2, 15>>, <<2, 3, 1>>>>,
      <<"sub", <<4, 5>>, <<2, 3, 1>>, <<2, 15, -1>>>>,
      <<"sub", <<4, 5>>, <<2, 5>>, <<2, 5>>>>,
      <<"sub", <<4, 5>>, <<3, 5, 1>>, <<1, 5, -2>>>>,
      <<"sub", <<4, 5>>, <<4, 15>>, <<8, 15, 1>>>>,
      <<"sub", <<4, 5>>, <<4, 5>>, <<0, 1>>>>,
      <<"sub", <<4, 5>>, <<8, 15, 1>>, <<4, 15, -1>>>>,
      <<"sub", <<4, 5>>, <<8, 15>>, <<4, 15, 1>>>> }

Rounded(op, a, b) ==
    (CHOOSE e \in BINARY64 : e[1] = op /\ e[2] = a /\ e[3] = b)[4]

FSub(a, b) == IF b = FZero THEN a ELSE Rounded("sub", a, b)

FDiv(a, count) == IF count = 1 THEN a ELSE Rounded("div", a, count)

FAdd(a, b) == IF a = FZero THEN b ELSE Rounded("add", a, b)

-----------------------------------------------------------------------------
(* graph/state.py *)

CallState(raw_transcript) ==
    [ call_id              |-> JNull,
      raw_transcript       |-> raw_transcript,
      cleaned_transcript   |-> "",
      utterances           |-> <<>>,
      entities             |-> JDict(EmptyDict),
      summary              |-> "",
      sentiment            |-> "",
      frustration_timeline |-> <<>>,
      pain_points          |-> <<>>,
      recommended_actions  |-> <<>>,
      messages             |-> <<>>,
      evaluation           |-> EmptyDict,
      start_ts             |-> 0,
      step_count           |-> 0,
      tool_calls           |-> 0,
      tool_successes       |-> 0 ]

MemoryState ==
    [ pain_point_counts    |-> EmptyDict,
      sentiment_counts     |-> EmptyDict,
      product_issue_counts |-> EmptyDict,
      total_calls          |-> 0,
      avg_faithfulness     |-> FZero,
      avg_coverage         |-> FZero,
      avg_consistency      |-> FZero ]

-----------------------------------------------------------------------------
(* graph/a2a.py *)

\* send_message keeping only the message it is given
send_message_keeps_latest(state, from_agent, to_agent, msg_type, payload) ==
    [state EXCEPT !.messages =
        <<[from |-> from_agent, to |-> to_agent,
           type |-> msg_type, payload |-> payload]>>]

send_message(state, from_agent, to_agent, msg_type, payload) ==
    [state EXCEPT !.messages =
        Append(@, [from |-> from_agent, to |-> to_agent,
                   type |-> msg_type, payload |-> payload])]

\* get_messages_for_agent without the "any" wildcard
get_messages_for_agent_without_wildcard(state, agent_name, msg_type) ==
    LET to_me(m) == m.to = agent_name
        msgs == SelectSeq(state.messages, to_me)
        of_type(m) == m.type = msg_type.s
    IN IF msg_type # JNull THEN SelectSeq(msgs, of_type) ELSE msgs

\* msg_type is JNull (Python's None: no filter) or JStr(type)
get_messages_for_agent(state, agent_name, msg_type) ==
    LET to_me(m) == m.to \in {agent_name, "any"}
        msgs == SelectSeq(state.messages, to_me)
        of_type(m) == m.type = msg_type.s
    IN IF msg_type # JNull THEN SelectSeq(msgs, of_type) ELSE msgs

\* no get_messages_for_agent call has been made
NoResult ==
    [called |-> FALSE, agent_name |-> "", msg_type |-> JNull, log |-> <<>>,
     result |-> <<>>]

-----------------------------------------------------------------------------
(* What a capability call answers: it raises, or returns content, of      *)
(* which json is what json.loads makes (NotJSON when json.loads raises).   *)

NotJSON == [t |-> "invalid"]

Raises == [raises |-> TRUE, content |-> "", json |-> NotJSON]

Content(text, json) == [raises |-> FALSE, content |-> text, json |-> json]

\* what an agent's step leaves: the state, and whether the agent returned,
\* is blocked in its capability call, or raised
Returned(state) == [state |-> state, status |-> "returned", prompt |-> EmptyDict]

Calling(state, prompt) == [state |-> state, status |-> "calling", prompt |-> prompt]

Raised(state) == [state |-> state, status |-> "raised", prompt |-> EmptyDict]

\* a or b on Python strings
StrOr(a, b) == IF a # "" THEN a ELSE b

\* call_state.cleaned_transcript or call_state.raw_transcript
TranscriptOf(cs) == StrOr(cs.cleaned_transcript, cs.raw_transcript)

-----------------------------------------------------------------------------
(* agents/cleaning.py *)

_fallback_clean(text) ==
    IF text = "" THEN "" ELSE RemoveArtifacts(NormalizeWhitespace(text))

_split_utterances(text) ==
    IF text = "" THEN <<>>
    ELSE LET parts == SplitSentences(text)
             stripped == [i \in 1..Len(parts) |-> Strip(parts[i])]
         IN SelectOrdered(stripped, Range(stripped) \ {""})

\* cleaning_agent storing the cleaned text over the transcript it was given
cleaning_finish_rewrites_raw(cs, cleaned) ==
    [cs EXCEPT !.raw_transcript = cleaned,
               !.cleaned_transcript = cleaned,
               !.utterances = _split_utterances(cleaned),
               !.step_count = @ + 1]

\* cleaning_agent from "3. Basic segmentation" on
cleaning_finish(cs, cleaned) ==
    [cs EXCEPT !.cleaned_transcript = cleaned,
               !.utterances = _split_utterances(cleaned),
               !.step_count = @ + 1]

\* cleaning_agent that does not count the call it makes
cleaning_agent_begin_uncounted_call(cs, tl) ==
    IF tl.cleaner
    THEN Calling(cs, EmptyDict)
    ELSE Returned(cleaning_finish(cs, _fallback_clean(cs.raw_transcript)))

\* cleaning_agent up to its return or its cleaner.clean_transcript call
cleaning_agent_begin(cs, tl) ==
    IF tl.cleaner
    THEN Calling([cs EXCEPT !.tool_calls = @ + 1], EmptyDict)
    ELSE Returned(cleaning_finish(cs, _fallback_clean(cs.raw_transcript)))

\* cleaning_agent from the answer of cleaner.clean_transcript on
cleaning_agent_resume(cs, r) ==
    IF r.raises
    THEN Returned(cleaning_finish(cs, _fallback_clean(cs.raw_transcript)))
    ELSE Returned(cleaning_finish([cs EXCEPT !.tool_successes = @ + 1], r.content))

-----------------------------------------------------------------------------
(* agents/entities.py *)

PRODUCT_KEYWORDS ==
    << "credit card", "debit card", "checking account", "savings account",
       "mobile app", "website", "online banking", "loan", "mortgage" >>

ISSUE_KEYWORDS ==
    << "refund", "chargeback", "login", "password", "declined", "blocked",
       "fee", "overcharged", "statement", "transfer", "fraud", "dispute" >>

\* next((kw for kw in keywords if kw in text_lower), None)
FirstKeyword(keywords, text) ==
    LET hits == {i \in 1..Len(keywords) : Contains(text, keywords[i])}
    IN IF hits = {} THEN JNull
       ELSE JStr(keywords[CHOOSE i \in hits : \A j \in hits : i <= j])

\* re.search(r"\b(cancel\b.*account|close my account)", text_lower): no
\* string of the model matches it
AsksToCancel(text) == Contains(text, "close my account")

\* re.search(r"supervisor|manager|third time|fourth time", text_lower)
AsksToEscalate(text) ==
    \E kw \in {"supervisor", "manager", "third time", "fourth time"} :
        Contains(text, kw)

rule_based_entities(text) ==
    JDict([ customer_profile |-> JNull,
            product          |-> FirstKeyword(PRODUCT_KEYWORDS, text),
            issue            |-> FirstKeyword(ISSUE_KEYWORDS, text),
            context          |-> JNull,
            priority         |-> IF AsksToCancel(text) \/ AsksToEscalate(text)
                                 THEN JStr("high") ELSE JStr("normal"),
            other_tags       |-> JList(<<>>) ])

\* entities_agent from "Sanity check" on
entities_finish(cs, found) ==
    LET entities == IF found.t # "dict" THEN JDict([raw_entities |-> found])
                    ELSE found
        payload == [ product  |-> DictGet(entities.d, "product"),
                     issue    |-> DictGet(entities.d, "issue"),
                     priority |-> DictGet(entities.d, "priority"),
                     tags     |-> DictGetOr(entities.d, "other_tags", JList(<<>>)) ]
        sent == send_message([cs EXCEPT !.entities = entities],
                             "entities", "summarization", "entity_summary", payload)
    IN [sent EXCEPT !.step_count = @ + 1]

entities_agent_begin(cs, tl) ==
    IF tl.llm
    THEN Calling([cs EXCEPT !.tool_calls = @ + 1], EmptyDict)
    ELSE Returned(entities_finish(cs, rule_based_entities(TranscriptOf(cs))))

\* entities_agent counting the success only once json.loads has gone through
entities_agent_resume_counts_parsed(cs, r) ==
    IF r.raises \/ r.json = NotJSON
    THEN Returned(entities_finish(cs, rule_based_entities(TranscriptOf(cs))))
    ELSE Returned(entities_finish([cs EXCEPT !.tool_successes = @ + 1], r.json))

entities_agent_resume(cs, r) ==
    IF r.raises
    THEN Returned(entities_finish(cs, rule_based_entities(TranscriptOf(cs))))
    ELSE LET counted == [cs EXCEPT !.tool_successes = @ + 1]
         IN IF r.json = NotJSON
            THEN Returned(entities_finish(counted, rule_based_entities(TranscriptOf(cs))))
            ELSE Returned(entities_finish(counted, r.json))

-----------------------------------------------------------------------------
(* agents/summarization.py *)

_rule_based_summary(cs) ==
    LET text == StrOr(cs.cleaned_transcript, cs.raw_transcript)
    IN IF Strip(text) = "" THEN NO_CONTENT_SUMMARY ELSE Shorten(text)

\* summarization_finish without the fallback: whatever text the model
\* returned, the empty one too, is the summary
summarization_finish_keeps_empty(cs, summary_text) ==
    [cs EXCEPT !.summary = summary_text, !.step_count = @ + 1]

\* summarization_agent from "Fallback if no llm or the call failed" on;
\* summary_text is "" for Python's None
summarization_finish(cs, summary_text) ==
    LET summary == IF summary_text = "" THEN _rule_based_summary(cs)
                   ELSE summary_text
    IN [cs EXCEPT !.summary = summary, !.step_count = @ + 1]

\* summarization_agent without its early return on an empty transcript
summarization_agent_begin_no_early_return(cs, tl) ==
    LET msgs == get_messages_for_agent(cs, "summarization", JStr("entity_summary"))
        entity_summary == IF msgs # <<>> THEN msgs[Len(msgs)].payload
                          ELSE EmptyDict
    IN IF tl.llm
       THEN Calling([cs EXCEPT !.tool_calls = @ + 1],
                    [entity_summary |-> entity_summary])
       ELSE Returned([cs EXCEPT !.summary = Shorten(TranscriptOf(cs)),
                                !.step_count = @ + 1])

summarization_agent_begin(cs, tl) ==
    IF cs.cleaned_transcript = "" /\ cs.raw_transcript = ""
    THEN Returned([cs EXCEPT !.summary = NO_CONTENT_SUMMARY, !.step_count = @ + 1])
    ELSE LET msgs == get_messages_for_agent(cs, "summarization", JStr("entity_summary"))
             entity_summary == IF msgs # <<>> THEN msgs[Len(msgs)].payload
                               ELSE EmptyDict
         IN IF tl.llm
            THEN Calling([cs EXCEPT !.tool_calls = @ + 1],
                         [entity_summary |-> entity_summary])
            ELSE Returned(summarization_finish(cs, ""))

summarization_agent_resume(cs, r) ==
    IF r.raises
    THEN Returned(summarization_finish(cs, ""))
    ELSE Returned(summarization_finish([cs EXCEPT !.tool_successes = @ + 1], r.content))

-----------------------------------------------------------------------------
(* agents/sentiment.py *)

ALLOWED_LABELS ==
    { "very_negative", "negative", "neutral", "positive", "very_positive",
      "mixed", "unknown" }

NEGATIVE_HINTS ==
    { "angry", "frustrated", "upset", "mad", "cancel", "close my account",
      "this is the third time", "this is the second time", "unacceptable",
      "disappointed", "complaint", "not happy", "terrible", "awful", "worst" }

POSITIVE_HINTS ==
    { "thank you", "thanks a lot", "appreciate", "great", "awesome",
      "helpful", "resolved", "perfect", "excellent" }

rule_based_sentiment(text) ==
    IF text = "" THEN "unknown"
    ELSE LET neg_hits == Cardinality({w \in NEGATIVE_HINTS : Contains(text, w)})
             pos_hits == Cardinality({w \in POSITIVE_HINTS : Contains(text, w)})
         IN IF neg_hits > pos_hits /\ neg_hits >= 2 THEN "very_negative"
            ELSE IF neg_hits > pos_hits /\ neg_hits >= 1 THEN "negative"
            ELSE IF pos_hits > neg_hits /\ pos_hits >= 2 THEN "very_positive"
            ELSE IF pos_hits > neg_hits /\ pos_hits >= 1 THEN "positive"
            ELSE IF pos_hits > 0 /\ neg_hits > 0 THEN "mixed"
            ELSE "neutral"

\* re.sub(r"[^a-z_]", "", re.split(r"\s+", label.strip())[0].lower())
FirstWordLetters(label) ==
    CASE label = "Negative." -> "negative"
      [] label = "The customer seems upset" -> "the"
      [] OTHER -> label

\* _normalize_label that takes the first word whatever it is
_normalize_label_keeps_word(label) ==
    IF label = "" THEN "unknown" ELSE FirstWordLetters(label)

_normalize_label(label) ==
    IF label = "" THEN "unknown"
    ELSE LET first == FirstWordLetters(label)
         IN IF first \in ALLOWED_LABELS THEN first ELSE "unknown"

\* sentiment_agent from "Fallback" on; sentiment_label is "" for None
sentiment_finish(cs, sentiment_label) ==
    LET text == StrOr(cs.cleaned_transcript, cs.raw_transcript)
        label == IF sentiment_label = "" THEN rule_based_sentiment(text)
                 ELSE sentiment_label
        counted == [cs EXCEPT !.sentiment = label, !.step_count = @ + 1]
    IN send_message(counted, "sentiment", "actions", "sentiment_signal",
                    [sentiment |-> label])

\* sentiment_agent whose early return forgets the step accounting
sentiment_agent_begin_uncounted_return(cs, tl) ==
    IF Strip(StrOr(cs.cleaned_transcript, cs.raw_transcript)) = ""
    THEN Returned([cs EXCEPT !.sentiment = "unknown"])
    ELSE IF tl.llm
         THEN Calling([cs EXCEPT !.tool_calls = @ + 1], EmptyDict)
         ELSE Returned(sentiment_finish(cs, ""))

sentiment_agent_begin(cs, tl) ==
    IF Strip(StrOr(cs.cleaned_transcript, cs.raw_transcript)) = ""
    THEN Returned([cs EXCEPT !.sentiment = "unknown", !.step_count = @ + 1])
    ELSE IF tl.llm
         THEN Calling([cs EXCEPT !.tool_calls = @ + 1], EmptyDict)
         ELSE Returned(sentiment_finish(cs, ""))

sentiment_agent_resume(cs, r) ==
    IF r.raises
    THEN Returned(sentiment_finish(cs, ""))
    ELSE Returned(sentiment_finish([cs EXCEPT !.tool_successes = @ + 1],
                                   _normalize_label(r.content)))

-----------------------------------------------------------------------------
(* agents/frustration_loop.py *)

FRUSTRATION_LABELS == {"low", "medium", "high"}

HIGH_TRIGGERS ==
    { "this is the third time", "this is the second time",
      "i am very frustrated", "unacceptable", "i want to cancel",
      "close my account", "worst experience" }

MEDIUM_TRIGGERS ==
    { "not happy", "disappointed", "still not working", "nobody helped me",
      "already tried", "taking too long" }

_rule_based_frustration(utterance) ==
    IF \E t \in HIGH_TRIGGERS : Contains(utterance, t) THEN "high"
    ELSE IF \E t \in MEDIUM_TRIGGERS : Contains(utterance, t) THEN "medium"
    ELSE "low"

_overall_level(timeline) ==
    IF \E i \in 1..Len(timeline) : timeline[i].level = "high" THEN "high"
    ELSE IF \E i \in 1..Len(timeline) : timeline[i].level = "medium" THEN "medium"
    ELSE "low"

\* s.lower() of a level
Lower(s) ==
    CASE s = "LOW" -> "low"
      [] s = "High" -> "high"
      [] OTHER -> s

\* the utterances the agent works on: call_state.utterances, or the whole
\* transcript as one utterance when there is no segmentation
FrustrationUtterances(cs) ==
    IF cs.utterances # <<>> THEN cs.utterances
    ELSE LET text == StrOr(cs.cleaned_transcript, cs.raw_transcript)
         IN IF text # "" THEN <<text>> ELSE <<>>

\* whether the "sanitize" loop body runs through on item without raising
ItemSanitizes(item) ==
    /\ item.t = "dict"
    /\ DictGet(item.d, "level").t = "str" \/ ~Truthy(DictGet(item.d, "level"))
    /\ LET level == DictGet(item.d, "level")
           lvl == IF level.t = "str" THEN Lower(level.s) ELSE ""
       IN lvl \in FRUSTRATION_LABELS
            \/ DictGetOr(item.d, "utterance", JStr("")).t = "str"
    /\ DictGetOr(item.d, "index", JNum(0)).t = "num"

SanitizeItem(item) ==
    LET level == DictGet(item.d, "level")
        lvl == IF level.t = "str" THEN Lower(level.s) ELSE ""
        utterance == DictGetOr(item.d, "utterance", JStr(""))
    IN [ index     |-> DictGetOr(item.d, "index", JNum(0)).n,
         utterance |-> utterance.s,
         level     |-> IF lvl \in FRUSTRATION_LABELS THEN lvl
                       ELSE _rule_based_frustration(utterance.s) ]

\* the timeline the LLM path leaves: [] unless the answer parsed to a list
\* whose every item went through the sanitize loop
LLMTimeline(r) ==
    IF r.json.t = "list" /\ \A i \in 1..Len(r.json.items) : ItemSanitizes(r.json.items[i])
    THEN [i \in 1..Len(r.json.items) |-> SanitizeItem(r.json.items[i])]
    ELSE <<>>

RuleBasedTimeline(utterances) ==
    [i \in 1..Len(utterances) |->
        [ index     |-> i,
          utterance |-> utterances[i],
          level     |-> _rule_based_frustration(utterances[i]) ]]

\* frustration_loop_agent from "Fallback path" on
frustration_finish(cs, llm_timeline) ==
    LET timeline == IF llm_timeline = <<>>
                    THEN RuleBasedTimeline(FrustrationUtterances(cs))
                    ELSE llm_timeline
        is_high(item) == item.level = "high"
        counted == [cs EXCEPT !.frustration_timeline = timeline,
                              !.step_count = @ + 1]
    IN send_message(counted, "frustration_loop", "pain_points", "frustration_summary",
                    [ overall_level   |-> _overall_level(timeline),
                      high_segments   |-> SelectSeq(timeline, is_high),
                      timeline_length |-> Len(timeline) ])

frustration_loop_agent_begin(cs, tl) ==
    IF FrustrationUtterances(cs) = <<>>
    THEN Returned([cs EXCEPT !.frustration_timeline = <<>>, !.step_count = @ + 1])
    ELSE IF tl.llm
         THEN Calling([cs EXCEPT !.tool_calls = @ + 1], EmptyDict)
         ELSE Returned(frustration_finish(cs, <<>>))

frustration_loop_agent_resume(cs, r) ==
    IF r.raises
    THEN Returned(frustration_finish(cs, <<>>))
    ELSE Returned(frustration_finish([cs EXCEPT !.tool_successes = @ + 1],
                                     LLMTimeline(r)))

-----------------------------------------------------------------------------
(* agents/pain_points.py *)

\* the list _rule_based_pain_points builds before its dedupe loop; an issue
\* the LLM gave is kept as the JSON value it is
PainPointCandidates(cs) ==
    LET entities == cs.entities.d
        text == StrOr(cs.cleaned_transcript, cs.raw_transcript)
        issue == DictGet(entities, "issue")
        product == DictGet(entities, "product")
        msgs == get_messages_for_agent(cs, "pain_points", JStr("frustration_summary"))
    IN (IF Truthy(issue)
        THEN IF Truthy(product)
             THEN <<JStr(Format(issue) \o " related to " \o Format(product))>>
             ELSE <<issue>>
        ELSE <<>>)
       \o (IF Contains(text, "refund") \/ Contains(text, "chargeback")
           THEN <<JStr("refund or chargeback delay")>> ELSE <<>>)
       \o (IF Contains(text, "login") \/ Contains(text, "password")
           THEN <<JStr("login or authentication issues")>> ELSE <<>>)
       \o (IF Contains(text, "fee") \/ Contains(text, "overcharged")
           THEN <<JStr("unexpected fees or overcharging")>> ELSE <<>>)
       \o (IF msgs # <<>> /\ msgs[Len(msgs)].payload.overall_level = "high"
           THEN <<JStr("customer is highly frustrated after multiple attempts")>>
           ELSE <<>>)

\* "if p not in seen" raises TypeError on an unhashable p
RuleBasedPainPointsRaises(cs) ==
    \E p \in Range(PainPointCandidates(cs)) : ~Hashable(p)

_rule_based_pain_points(cs) ==
    LET found == PainPointCandidates(cs)
        deduped == Dedupe([i \in 1..Len(found) |-> Format(found[i])])
    IN IF deduped = <<>> THEN <<UNCLEAR_PAIN_POINT>> ELSE deduped

\* [str(p).strip() for p in parsed if str(p).strip()]
StrippedStrings(items) ==
    LET stripped == [i \in 1..Len(items) |-> Strip(Format(items[i]))]
    IN SelectOrdered(stripped, Range(stripped) \ {""})

\* pain_points_agent from "Fallback to rule-based" on; pain_points is <<>>
\* for None
pain_points_finish(cs, pain_points) ==
    IF pain_points = <<>>
    THEN IF RuleBasedPainPointsRaises(cs) THEN Raised(cs)
         ELSE Returned([cs EXCEPT !.pain_points = _rule_based_pain_points(cs),
                                  !.step_count = @ + 1])
    ELSE Returned([cs EXCEPT !.pain_points = pain_points, !.step_count = @ + 1])

pain_points_agent_begin(cs, tl) ==
    LET msgs == get_messages_for_agent(cs, "pain_points", JStr("frustration_summary"))
        frustration_summary == IF msgs # <<>> THEN msgs[Len(msgs)].payload
                               ELSE EmptyDict
    IN IF tl.llm
       THEN Calling([cs EXCEPT !.tool_calls = @ + 1],
                    [frustration_summary |-> frustration_summary])
       ELSE pain_points_finish(cs, <<>>)

pain_points_agent_resume(cs, r) ==
    IF r.raises
    THEN pain_points_finish(cs, <<>>)
    ELSE LET counted == [cs EXCEPT !.tool_successes = @ + 1]
         IN IF r.json.t = "list"
            THEN pain_points_finish(counted, StrippedStrings(r.json.items))
            ELSE pain_points_finish(counted, <<>>)

-----------------------------------------------------------------------------
(* agents/actions.py *)

\* what the loop body of _rule_based_actions appends for pain point p
ActionsFor(p) ==
    IF Contains(p, "refund") \/ Contains(p, "chargeback")
    THEN << "Check refund/chargeback status and expedite if delayed.",
            "Provide clear timeline and confirmation email for the refund." >>
    ELSE IF Contains(p, "login") \/ Contains(p, "authentication")
    THEN << "Walk customer through login reset or credential recovery.",
            "Check for account lock or security flags and resolve." >>
    ELSE IF Contains(p, "fee") \/ Contains(p, "overcharged")
    THEN << "Review recent charges and waive fees if misapplied." >>
    ELSE IF Contains(p, "repeated unresolved contacts")
    THEN << "Escalate to Tier-2 support with full case context." >>
    ELSE << "Investigate and follow standard playbook for: " \o p >>

RECURSIVE ActionsForAll(_)
ActionsForAll(pain_points) ==
    IF pain_points = <<>> THEN <<>>
    ELSE ActionsFor(Head(pain_points)) \o ActionsForAll(Tail(pain_points))

_rule_based_actions(cs) ==
    LET sentiment == StrOr(cs.sentiment, "neutral")
        actions == ActionsForAll(cs.pain_points)
                   \o (IF sentiment \in {"very_negative", "negative"}
                       THEN <<"Offer apology and consider goodwill credit or compensation.">>
                       ELSE <<>>)
        deduped == Dedupe(actions)
    IN IF deduped = <<>>
       THEN <<"Follow standard support procedure and update CRM with call summary.">>
       ELSE deduped

\* actions_agent from "if not actions" on; actions is <<>> for None
actions_finish(cs, actions) ==
    [cs EXCEPT !.recommended_actions = IF actions = <<>> THEN _rule_based_actions(cs)
                                       ELSE actions,
               !.step_count = @ + 1]

actions_agent_begin(cs, tl) ==
    IF tl.llm
    THEN Calling([cs EXCEPT !.tool_calls = @ + 1], EmptyDict)
    ELSE Returned(actions_finish(cs, <<>>))

\* actions_agent calling the LLM a second time when the first call raised
actions_agent_resume_retries(cs, r) ==
    IF r.raises
    THEN Returned(actions_finish([cs EXCEPT !.tool_calls = @ + 1], <<>>))
    ELSE LET counted == [cs EXCEPT !.tool_successes = @ + 1]
         IN IF r.json.t = "list"
            THEN Returned(actions_finish(counted, StrippedStrings(r.json.items)))
            ELSE Returned(actions_finish(counted, <<>>))

\* actions_agent taking an answer that is not a list as the one action
actions_agent_resume_keeps_text(cs, r) ==
    IF r.raises
    THEN Returned(actions_finish(cs, <<>>))
    ELSE LET counted == [cs EXCEPT !.tool_successes = @ + 1]
         IN IF r.json.t = "list"
            THEN Returned(actions_finish(counted, StrippedStrings(r.json.items)))
            ELSE Returned(actions_finish(counted, <<r.content>>))

actions_agent_resume(cs, r) ==
    IF r.raises
    THEN Returned(actions_finish(cs, <<>>))
    ELSE LET counted == [cs EXCEPT !.tool_successes = @ + 1]
         IN IF r.json.t = "list"
            THEN Returned(actions_finish(counted, StrippedStrings(r.json.items)))
            ELSE Returned(actions_finish(counted, <<>>))

-----------------------------------------------------------------------------
(* eval/metrics.py *)

\* compute_basic_eval with the rate's guard on the wrong counter
compute_basic_eval_guards_successes(cs) ==
    [ tool_calls        |-> cs.tool_calls,
      tool_successes    |-> cs.tool_successes,
      tool_success_rate |-> IF cs.tool_successes # 0
                            THEN Frac(cs.tool_successes, cs.tool_calls)
                            ELSE FOne,
      step_count        |-> cs.step_count ]

\* compute_basic_eval reporting rate 0.0 for a run without tool calls
compute_basic_eval_zero_rate(cs) ==
    [ tool_calls        |-> cs.tool_calls,
      tool_successes    |-> cs.tool_successes,
      tool_success_rate |-> IF cs.tool_calls # 0
                            THEN Frac(cs.tool_successes, cs.tool_calls)
                            ELSE FZero,
      step_count        |-> cs.step_count ]

compute_basic_eval(cs) ==
    [ tool_calls        |-> cs.tool_calls,
      tool_successes    |-> cs.tool_successes,
      tool_success_rate |-> IF cs.tool_calls # 0
                            THEN Frac(cs.tool_successes, cs.tool_calls)
                            ELSE FOne,
      step_count        |-> cs.step_count ]

\* d[key] = 1 for a new key only
Increment_new_keys_only(d, key) ==
    IF key \in DOMAIN d THEN d ELSE d @@ (key :> 1)

\* d[key] = d.get(key, 0) + 1
Increment(d, key) ==
    IF key \in DOMAIN d THEN [d EXCEPT ![key] = @ + 1] ELSE d @@ (key :> 1)

RECURSIVE IncrementAll(_, _)
IncrementAll(d, keys) ==
    IF keys = <<>> THEN d
    ELSE IncrementAll(Increment(d, Head(keys)), Tail(keys))

\* current_avg + (new_value - current_avg) / float(count)
_update_running_avg(current_avg, new_value, count) ==
    FAdd(current_avg, FDiv(FSub(new_value, current_avg), count))

\* the fold keeping the latest value of a score field instead of averaging
FoldAverage_keeps_latest(avg, eval_data, key, n) ==
    IF key \in DOMAIN eval_data THEN eval_data[key] ELSE avg

\* the fold's running average of one score field, if the field is present
FoldAverage(avg, eval_data, key, n) ==
    IF key \in DOMAIN eval_data THEN _update_running_avg(avg, eval_data[key], n)
    ELSE avg

\* the fold counting a sentiment only for a call that has one
FoldCounts_skips_unlabelled(mem, cs) ==
    [mem EXCEPT !.total_calls = @ + 1,
                !.sentiment_counts = IF cs.sentiment = "" THEN @
                                     ELSE Increment(@, cs.sentiment),
                !.pain_point_counts = IncrementAll(@, cs.pain_points)]

\* update_memory_from_call up to the product count: the part that has run
\* when memory.product_issue_counts.get(product, 0) raises TypeError on an
\* unhashable product
FoldCounts(mem, cs) ==
    [mem EXCEPT !.total_calls = @ + 1,
                !.sentiment_counts = Increment(@, StrOr(cs.sentiment, "unknown")),
                !.pain_point_counts = IncrementAll(@, cs.pain_points)]

FoldRaises(cs) ==
    LET product == DictGet(cs.entities.d, "product")
    IN Truthy(product) /\ ~Hashable(product)

update_memory_from_call(mem, cs) ==
    LET counted == FoldCounts(mem, cs)
        n == counted.total_calls
        product == DictGet(cs.entities.d, "product")
        eval_data == cs.evaluation
    IN IF FoldRaises(cs) THEN counted
       ELSE [counted EXCEPT
                !.product_issue_counts =
                    IF Truthy(product) THEN Increment(@, Format(product)) ELSE @,
                !.avg_faithfulness = FoldAverage(@, eval_data, "faithfulness_score", n),
                !.avg_coverage = FoldAverage(@, eval_data, "coverage_score", n),
                !.avg_consistency = FoldAverage(@, eval_data, "consistency_score", n)]

-----------------------------------------------------------------------------
(* agents/evaluation.py *)

SCORE_KEYS == <<"faithfulness_score", "coverage_score", "consistency_score">>

_default_llm_scores ==
    JDict([ faithfulness_score |-> JNum(FOne),
            coverage_score     |-> JNum(FOne),
            consistency_score  |-> JNum(FOne),
            notes |-> JStr("LLM evaluation not available; using default scores.") ])

\* the strings of the model float() accepts
ParseFloat(text) ==
    CASE text = "0.5" -> FHalf
      [] OTHER -> FZero

FloatRaises(v) == ~(v.t = "num" \/ (v.t = "str" /\ v.s \in {"0.5"}))

Float(v) == IF v.t = "num" THEN v.n ELSE ParseFloat(v.s)

\* the try block after json.loads: the required keys are filled in from the
\* defaults.  On a list, "key not in parsed" is a membership test and
\* parsed[key] = ... raises; on any other non-dict the block raises too.
\* What is left is llm_scores.
FilledScores(parsed) ==
    LET defaults == _default_llm_scores.d
        required == Range(SCORE_KEYS) \cup {"notes"}
    IN CASE parsed.t = "dict" ->
                JDict([k \in DOMAIN parsed.d \cup required |->
                        IF k \in DOMAIN parsed.d THEN parsed.d[k]
                        ELSE IF k = "notes" THEN JStr("") ELSE defaults[k]])
         [] parsed.t = "list" ->
                IF \A k \in required : JStr(k) \in Range(parsed.items)
                THEN parsed ELSE _default_llm_scores
         [] OTHER -> _default_llm_scores

\* evaluation_agent counting its own step before it takes the metrics
evaluation_finish_counts_first(cs, llm_scores) ==
    IF llm_scores.t # "dict"
       \/ \E i \in 1..Len(SCORE_KEYS) :
            FloatRaises(DictGetOr(llm_scores.d, SCORE_KEYS[i], JNum(FOne)))
    THEN Raised(cs)
    ELSE LET counted == [cs EXCEPT !.step_count = @ + 1]
             basic_eval == compute_basic_eval(counted)
             score(key) == Float(DictGetOr(llm_scores.d, key, JNum(FOne)))
         IN Returned([counted EXCEPT
                !.evaluation =
                    [ tool_calls         |-> basic_eval.tool_calls,
                      tool_successes     |-> basic_eval.tool_successes,
                      tool_success_rate  |-> basic_eval.tool_success_rate,
                      step_count         |-> basic_eval.step_count,
                      faithfulness_score |-> score("faithfulness_score"),
                      coverage_score     |-> score("coverage_score"),
                      consistency_score  |-> score("consistency_score"),
                      eval_notes         |-> DictGetOr(llm_scores.d, "notes", JStr("")) ]])

\* evaluation_agent from "2. Basic observability metrics" on
evaluation_finish(cs, llm_scores) ==
    IF llm_scores.t # "dict"
       \/ \E i \in 1..Len(SCORE_KEYS) :
            FloatRaises(DictGetOr(llm_scores.d, SCORE_KEYS[i], JNum(FOne)))
    THEN Raised(cs)
    ELSE LET basic_eval == compute_basic_eval(cs)
             score(key) == Float(DictGetOr(llm_scores.d, key, JNum(FOne)))
         IN Returned([cs EXCEPT
                !.evaluation =
                    [ tool_calls         |-> basic_eval.tool_calls,
                      tool_successes     |-> basic_eval.tool_successes,
                      tool_success_rate  |-> basic_eval.tool_success_rate,
                      step_count         |-> basic_eval.step_count,
                      faithfulness_score |-> score("faithfulness_score"),
                      coverage_score     |-> score("coverage_score"),
                      consistency_score  |-> score("consistency_score"),
                      eval_notes         |-> DictGetOr(llm_scores.d, "notes", JStr("")) ],
                !.step_count = @ + 1])

evaluation_agent_begin(cs, tl) ==
    IF tl.llm
    THEN Calling([cs EXCEPT !.tool_calls = @ + 1], EmptyDict)
    ELSE evaluation_finish(cs, _default_llm_scores)

evaluation_agent_resume(cs, r) ==
    IF r.raises
    THEN evaluation_finish(cs, _default_llm_scores)
    ELSE LET counted == [cs EXCEPT !.tool_successes = @ + 1]
         IN IF r.json = NotJSON
            THEN evaluation_finish(counted, _default_llm_scores)
            ELSE evaluation_finish(counted, FilledScores(r.json))

-----------------------------------------------------------------------------
(* The capabilities: what the cleaner and the LLM may answer to each agent *)

\* the transcripts run_pipeline is called with
Transcripts == {RAW_EMPTY, RAW_BLANK, RAW_CALL}

\* what a cleaner that normalises whitespace and drops artifacts returns
CleanerNormalises(raw) ==
    CASE raw = RAW_CALL -> CLEAN_CALL_SHORT
      [] OTHER -> ""

\* the cleaner raises, or returns the normalised text, or, given nothing to
\* clean, a boilerplate text
CleanerAnswers(raw) ==
    { Raises, Content(CleanerNormalises(raw), NotJSON) }
    \cup (IF CleanerNormalises(raw) = ""
          THEN {Content(CLEANER_BOILERPLATE, NotJSON)} ELSE {})

ENTITIES_OK ==
    Content("{\"product\": \"mobile app\", \"issue\": \"login\", \"priority\": \"high\", \"other_tags\": [\"app\"]}",
            JDict([ product    |-> JStr("mobile app"),
                    issue      |-> JStr("login"),
                    priority   |-> JStr("high"),
                    other_tags |-> JList(<<JStr("app")>>) ]))

ENTITIES_PRODUCT_LIST ==
    Content("{\"product\": [\"credit card\", \"mobile app\"], \"issue\": \"refund\", \"priority\": \"normal\"}",
            JDict([ product  |-> JList(<<JStr("credit card"), JStr("mobile app")>>),
                    issue    |-> JStr("refund"),
                    priority |-> JStr("normal") ]))

ENTITIES_ISSUE_LIST ==
    Content("{\"product\": null, \"issue\": [\"refund\", \"fee\"], \"priority\": \"normal\"}",
            JDict([ product  |-> JNull,
                    issue    |-> JList(<<JStr("refund"), JStr("fee")>>),
                    priority |-> JStr("normal") ]))

ENTITIES_ARRAY ==
    Content("[\"credit card\", \"refund\"]",
            JList(<<JStr("credit card"), JStr("refund")>>))

ENTITIES_PROSE == Content("The customer has a refund problem.", NotJSON)

SUMMARY_TEXT == Content("Customer reports a late refund.", NotJSON)

SUMMARY_EMPTY == Content("", NotJSON)

SENTIMENT_LABEL == Content("Negative.", NotJSON)

SENTIMENT_PROSE == Content("The customer seems upset", NotJSON)

FRUSTRATION_LIST ==
    Content("[{\"index\": 1, \"utterance\": \"My credit card refund is late.\", \"level\": \"LOW\"}, {\"index\": 2, \"utterance\": \"This is unacceptable!\", \"level\": \"angry\"}]",
            JList(<< JDict([index |-> JNum(1), utterance |-> JStr(UTT_1), level |-> JStr("LOW")]),
                     JDict([index |-> JNum(2), utterance |-> JStr(UTT_2), level |-> JStr("angry")]) >>))

FRUSTRATION_PROSE == Content("1. low 2. high", NotJSON)

PAIN_LIST ==
    Content("[\"Refund is late \", \"\", \"Refund is late\"]",
            JList(<<JStr("Refund is late "), JStr(""), JStr("Refund is late")>>))

PAIN_DICT ==
    Content("{\"pain_points\": [\"Refund is late\"]}",
            JDict([pain_points |-> JList(<<JStr("Refund is late")>>)]))

PAIN_PROSE == Content("The refund is late.", NotJSON)

ACTIONS_LIST ==
    Content("[\"Expedite the refund.\", \" \"]",
            JList(<<JStr("Expedite the refund."), JStr(" ")>>))

ACTIONS_PROSE == Content("Expedite the refund.", NotJSON)

EVAL_SCORES ==
    Content("{\"faithfulness_score\": 0.5, \"coverage_score\": 1.0, \"consistency_score\": \"0.5\", \"notes\": \"ok\"}",
            JDict([ faithfulness_score |-> JNum(FHalf),
                    coverage_score     |-> JNum(FOne),
                    consistency_score  |-> JStr("0.5"),
                    notes              |-> JStr("ok") ]))

EVAL_PARTIAL ==
    Content("{\"faithfulness_score\": 0.0}",
            JDict([faithfulness_score |-> JNum(FZero)]))

EVAL_NON_NUMERIC ==
    Content("{\"faithfulness_score\": \"high\", \"coverage_score\": 1.0, \"consistency_score\": 1.0}",
            JDict([ faithfulness_score |-> JStr("high"),
                    coverage_score     |-> JNum(FOne),
                    consistency_score  |-> JNum(FOne) ]))

EVAL_PROSE == Content("The analysis looks faithful.", NotJSON)

\* what llm.chat.completions.create may answer to the agent that calls it
LLMAnswers(name) ==
    CASE name = "entities" ->
            { Raises, ENTITIES_PROSE, ENTITIES_OK, ENTITIES_ARRAY,
              ENTITIES_ISSUE_LIST, ENTITIES_PRODUCT_LIST }
      [] name = "summarization" -> {Raises, SUMMARY_TEXT, SUMMARY_EMPTY}
      [] name = "sentiment" -> {Raises, SENTIMENT_LABEL, SENTIMENT_PROSE}
      [] name = "frustration_loop" ->
            {Raises, FRUSTRATION_PROSE, FRUSTRATION_LIST}
      [] name = "pain_points" -> {Raises, PAIN_PROSE, PAIN_DICT, PAIN_LIST}
      [] name = "actions" -> {Raises, ACTIONS_PROSE, ACTIONS_LIST}
      [] name = "evaluation" ->
            {Raises, EVAL_PROSE, EVAL_SCORES, EVAL_PARTIAL, EVAL_NON_NUMERIC}

Answers(name, cs) ==
    IF name = "cleaning" THEN CleanerAnswers(cs.raw_transcript) ELSE LLMAnswers(name)

\* the cap_log entry of a call that has not answered yet
Pending == [raises |-> FALSE, content |-> "", json |-> [t |-> "pending"]]

-----------------------------------------------------------------------------
(* graph/agents.py *)

AGENT_REGISTRY ==
    { "cleaning", "entities", "summarization", "sentiment", "frustration_loop",
      "pain_points", "actions", "evaluation" }

\* AGENT_EXECUTION_ORDER with summarization listed ahead of entities
AGENT_EXECUTION_ORDER_summary_first ==
    << "cleaning", "summarization", "entities", "sentiment", "frustration_loop",
       "pain_points", "actions" >>

\* AGENT_EXECUTION_ORDER with sentiment listed ahead of summarization
AGENT_EXECUTION_ORDER_sentiment_first ==
    << "cleaning", "entities", "sentiment", "summarization", "frustration_loop",
       "pain_points", "actions" >>

AGENT_EXECUTION_ORDER ==
    << "cleaning", "entities", "summarization", "sentiment", "frustration_loop",
       "pain_points", "actions" >>

\* the registered agent, run up to its return or its capability call
AgentBegin(name, cs, tl) ==
    CASE name = "cleaning" -> cleaning_agent_begin(cs, tl)
      [] name = "entities" -> entities_agent_begin(cs, tl)
      [] name = "summarization" -> summarization_agent_begin(cs, tl)
      [] name = "sentiment" -> sentiment_agent_begin(cs, tl)
      [] name = "frustration_loop" -> frustration_loop_agent_begin(cs, tl)
      [] name = "pain_points" -> pain_points_agent_begin(cs, tl)
      [] name = "actions" -> actions_agent_begin(cs, tl)
      [] name = "evaluation" -> evaluation_agent_begin(cs, tl)

\* the registered agent, run from the answer of its capability call on
AgentResume(name, cs, r) ==
    CASE name = "cleaning" -> cleaning_agent_resume(cs, r)
      [] name = "entities" -> entities_agent_resume(cs, r)
      [] name = "summarization" -> summarization_agent_resume(cs, r)
      [] name = "sentiment" -> sentiment_agent_resume(cs, r)
      [] name = "frustration_loop" -> frustration_loop_agent_resume(cs, r)
      [] name = "pain_points" -> pain_points_agent_resume(cs, r)
      [] name = "actions" -> actions_agent_resume(cs, r)
      [] name = "evaluation" -> evaluation_agent_resume(cs, r)

-----------------------------------------------------------------------------
(* graph/supervisor.py: run_pipeline *)

\* the agent run_pipeline is at: the loop's, then the evaluation agent
CurrentAgent ==
    IF pc = "agents" THEN AGENT_EXECUTION_ORDER[agent_i] ELSE "evaluation"

Init ==
    /\ call_state \in {CallState(raw) : raw \in Transcripts}
    /\ memory = MemoryState
    /\ registry = AGENT_REGISTRY
    /\ tools \in [llm : BOOLEAN, cleaner : BOOLEAN]
    /\ update_memory \in BOOLEAN
    /\ pc = "agents"
    /\ agent_i = 1
    /\ waiting = FALSE
    /\ invoked = <<>>
    /\ cap_log = <<>>
    /\ got = NoResult
    /\ folded = <<>>
    /\ folding = <<>>

\* what run_pipeline does when the invoked agent has returned or raised
Advance(status) ==
    IF status = "raised" THEN pc' = "raised" /\ agent_i' = agent_i
    ELSE IF pc = "agents"
         THEN IF agent_i < Len(AGENT_EXECUTION_ORDER)
              THEN pc' = pc /\ agent_i' = agent_i + 1
              ELSE pc' = "evaluation" /\ agent_i' = agent_i
         ELSE pc' = "memory" /\ agent_i' = agent_i

\* get_agent(name) and the call of the agent, up to its return or its
\* capability call
InvokeAgent ==
    /\ pc \in {"agents", "evaluation"}
    /\ ~waiting
    /\ CurrentAgent \in registry
    /\ LET began == AgentBegin(CurrentAgent, call_state, tools)
       IN /\ call_state' = began.state
          /\ invoked' = Append(invoked, CurrentAgent)
          /\ IF began.status = "calling"
             THEN /\ waiting' = TRUE
                  /\ cap_log' = Append(cap_log, [ agent  |-> CurrentAgent,
                                                  prompt |-> began.prompt,
                                                  resp   |-> Pending ])
                  /\ UNCHANGED <<pc, agent_i>>
             ELSE /\ waiting' = FALSE
                  /\ cap_log' = cap_log
                  /\ Advance(began.status)
    /\ UNCHANGED <<memory, registry, tools, update_memory, direct>>

\* the capability call of the blocked agent answers, and the agent runs on
\* to its return (or raises)
CapabilityAnswers ==
    /\ waiting
    /\ \E r \in Answers(CurrentAgent, call_state) :
        LET ended == AgentResume(CurrentAgent, call_state, r)
        IN /\ call_state' = ended.state
           /\ cap_log' = [cap_log EXCEPT ![Len(cap_log)].resp = r]
           /\ Advance(ended.status)
    /\ waiting' = FALSE
    /\ UNCHANGED <<memory, registry, tools, update_memory, invoked, direct>>

\* "5. Update long-term memory" with update_memory set, then the return
UpdateMemory ==
    /\ pc = "memory"
    /\ update_memory
    /\ memory' = update_memory_from_call(memory, call_state)
    /\ pc' = IF FoldRaises(call_state) THEN "raised" ELSE "done"
    /\ UNCHANGED <<call_state, registry, tools, update_memory, agent_i, waiting,
                   invoked, cap_log, direct>>

\* the return with update_memory not set
ReturnWithoutMemory ==
    /\ pc = "memory"
    /\ ~update_memory
    /\ pc' = "done"
    /\ UNCHANGED <<call_state, memory, registry, tools, update_memory, agent_i,
                   waiting, invoked, cap_log, direct>>

Next == InvokeAgent \/ CapabilityAnswers \/ UpdateMemory \/ ReturnWithoutMemory

Spec == Init /\ [][Next]_vars

-----------------------------------------------------------------------------
(* run_pipeline with one agent missing from AGENT_REGISTRY *)

InitRegistry ==
    /\ call_state \in {CallState(raw) : raw \in Transcripts}
    /\ memory = MemoryState
    /\ registry \in {AGENT_REGISTRY \ {name} : name \in AGENT_REGISTRY}
    /\ tools \in [llm : BOOLEAN, cleaner : BOOLEAN]
    /\ update_memory \in BOOLEAN
    /\ pc = "agents"
    /\ agent_i = 1
    /\ waiting = FALSE
    /\ invoked = <<>>
    /\ cap_log = <<>>
    /\ got = NoResult
    /\ folded = <<>>
    /\ folding = <<>>

\* get_agent turning an unregistered name into a step that does nothing
UnknownAgent_does_nothing ==
    /\ pc = "agents"
    /\ ~waiting
    /\ CurrentAgent \notin registry
    /\ Advance("returned")
    /\ UNCHANGED <<call_state, memory, registry, tools, update_memory, waiting,
                   invoked, cap_log, direct>>

\* get_agent(agent_name) raises KeyError in the for loop, and run_pipeline
\* with it
UnknownAgent ==
    /\ pc = "agents"
    /\ ~waiting
    /\ CurrentAgent \notin registry
    /\ pc' = "raised"
    /\ UNCHANGED <<call_state, memory, registry, tools, update_memory, agent_i,
                   waiting, invoked, cap_log, direct>>

\* the KeyError of get_agent("evaluation") passing through run_pipeline
SkipEvaluation_raises ==
    /\ pc = "evaluation"
    /\ ~waiting
    /\ "evaluation" \notin registry
    /\ pc' = "raised"
    /\ UNCHANGED <<call_state, memory, registry, tools, update_memory, agent_i,
                   waiting, invoked, cap_log, direct>>

\* get_agent("evaluation") raises KeyError, which run_pipeline catches
SkipEvaluation ==
    /\ pc = "evaluation"
    /\ ~waiting
    /\ "evaluation" \notin registry
    /\ pc' = "memory"
    /\ UNCHANGED <<call_state, memory, registry, tools, update_memory, agent_i,
                   waiting, invoked, cap_log, direct>>

NextRegistry == Next \/ UnknownAgent \/ SkipEvaluation

SpecRegistry == InitRegistry /\ [][NextRegistry]_vars

-----------------------------------------------------------------------------
(* graph/a2a.py called directly: any caller may send to any recipient,      *)
(* registered or not, and read any agent's messages                         *)

MaxMessages == 3

\* recipients: two registered agents, the wildcard, and an unregistered name
BusRecipients == {"pain_points", "actions", "any", "auditor"}

BusTypes == {"sentiment_signal", "note"}

\* the state of a caller that is not inside run_pipeline
Idle(at) ==
    /\ memory = MemoryState
    /\ registry = AGENT_REGISTRY
    /\ tools = [llm |-> FALSE, cleaner |-> FALSE]
    /\ update_memory = FALSE
    /\ pc = at
    /\ agent_i = 1
    /\ waiting = FALSE
    /\ invoked = <<>>
    /\ cap_log = <<>>

InitBus ==
    /\ Idle("bus")
    /\ call_state = CallState(RAW_CALL)
    /\ got = NoResult
    /\ folded = <<>>
    /\ folding = <<>>

\* send_message(state, from_agent, to_agent, msg_type, payload); the payload
\* numbers the message
SendMessage ==
    /\ pc = "bus"
    /\ Len(call_state.messages) < MaxMessages
    /\ \E to_agent \in BusRecipients, msg_type \in BusTypes :
          call_state' = send_message(call_state, "supervisor", to_agent, msg_type,
                            JDict([seq |-> JNum(Len(call_state.messages) + 1)]))
    /\ UNCHANGED <<memory, registry, tools, update_memory, pc, agent_i, waiting,
                   invoked, cap_log, direct>>

\* get_messages_for_agent(state, agent_name, msg_type)
GetMessages ==
    /\ pc = "bus"
    /\ \E agent_name \in BusRecipients \ {"any"},
          msg_type \in {JNull} \cup {JStr(t) : t \in BusTypes} :
          got' = [ called     |-> TRUE,
                   agent_name |-> agent_name,
                   msg_type   |-> msg_type,
                   log        |-> call_state.messages,
                   result     |-> get_messages_for_agent(call_state, agent_name,
                                                         msg_type) ]
    /\ UNCHANGED <<call_state, memory, registry, tools, update_memory, pc,
                   agent_i, waiting, invoked, cap_log, folded, folding>>

NextBus == Next \/ SendMessage \/ GetMessages

\* the bus as run_pipeline's agents use it, and as a direct caller uses it
SpecBus == (Init \/ InitBus) /\ [][NextBus]_vars

-----------------------------------------------------------------------------
(* eval/metrics.py called directly: a caller folds finished calls, one      *)
(* after the other, into one MemoryState                                    *)

MaxFolds == 3

\* a CallState as update_memory_from_call reads it
FinishedCall(sentiment, pain_points, entities, evaluation) ==
    [CallState(RAW_CALL) EXCEPT !.sentiment = sentiment,
                                !.pain_points = pain_points,
                                !.entities = JDict(entities),
                                !.evaluation = evaluation]

\* calls with and without a sentiment, a product and each of the scores
FinishedCalls ==
    { FinishedCall("", <<>>, EmptyDict, EmptyDict),
      FinishedCall("negative",
                   <<"Refund is late", "Refund is late", "App crashes">>,
                   [product |-> JStr("credit card")],
                   [ faithfulness_score |-> Frac(4, 5),
                     coverage_score     |-> Frac(4, 5),
                     consistency_score  |-> Frac(2, 5) ]),
      FinishedCall("negative", <<"App crashes">>, [product |-> JStr("")],
                   [faithfulness_score |-> Frac(2, 5)]),
      FinishedCall("neutral", <<>>, [product |-> JNull],
                   [ faithfulness_score |-> Frac(4, 5),
                     coverage_score     |-> Frac(2, 5) ]),
      FinishedCall("positive", <<>>, [product |-> JStr("mobile app")],
                   [consistency_score |-> Frac(4, 5)]) }

InitFold ==
    /\ Idle("fold")
    /\ call_state = CallState(RAW_CALL)
    /\ got = NoResult
    /\ folded = <<>>
    /\ folding = <<>>

\* update_memory_from_call(memory, call_state)
Fold ==
    /\ pc = "fold"
    /\ Len(folded) < MaxFolds
    /\ \E cs \in FinishedCalls :
          /\ memory' = update_memory_from_call(memory, cs)
          /\ folded' = Append(folded, cs)
    /\ UNCHANGED <<call_state, registry, tools, update_memory, pc, agent_i,
                   waiting, invoked, cap_log, got, folding>>

SpecFold == InitFold /\ [][Fold]_vars

-----------------------------------------------------------------------------
(* eval/metrics.py called by two threads at once on one MemoryState:        *)
(* update_memory_from_call takes no lock, so every read and every write of  *)
(* the memory is a step of its own                                          *)

\* the two folds and the CallState each one folds
FoldingCalls ==
    [ a |-> FinishedCall("negative", <<"Refund is late">>,
                         [product |-> JStr("credit card")],
                         [faithfulness_score |-> Frac(4, 5)]),
      b |-> FinishedCall("negative", <<>>, EmptyDict,
                         [faithfulness_score |-> Frac(2, 5)]) ]

\* the counters a fold increments, <<table, key>>, and then the averages it
\* moves, <<field, score>>, in the order of the code
Counters(cs) ==
    LET product == DictGet(cs.entities.d, "product")
        score(key, field) ==
            IF key \in DOMAIN cs.evaluation THEN <<<<field, key>>>> ELSE <<>>
    IN <<<<"sentiment_counts", StrOr(cs.sentiment, "unknown")>>>>
       \o [i \in 1..Len(cs.pain_points) |-> <<"pain_point_counts", cs.pain_points[i]>>]
       \o (IF Truthy(product) THEN <<<<"product_issue_counts", Format(product)>>>>
           ELSE <<>>)
       \o score("faithfulness_score", "avg_faithfulness")
       \o score("coverage_score", "avg_coverage")
       \o score("consistency_score", "avg_consistency")

InitRace ==
    /\ Idle("race")
    /\ call_state = CallState(RAW_CALL)
    /\ got = NoResult
    /\ folded = <<>>
    /\ folding = [t \in DOMAIN FoldingCalls |->
                    [at |-> "read_total", i |-> 1, total |-> 0, n |-> 0,
                     count |-> 0, avg |-> FZero]]

\* memory.total_calls += 1, its read
ReadTotal ==
    /\ pc = "race"
    /\ \E t \in DOMAIN folding :
          /\ folding[t].at = "read_total"
          /\ folding' = [folding EXCEPT ![t].total = memory.total_calls,
                                        ![t].at = "write_total"]
    /\ UNCHANGED <<call_state, memory, registry, tools, update_memory, pc,
                   agent_i, waiting, invoked, cap_log, got, folded>>

\* memory.total_calls += 1 as one atomic increment
WriteTotal_atomic ==
    /\ pc = "race"
    /\ \E t \in DOMAIN folding :
          /\ folding[t].at = "write_total"
          /\ memory' = [memory EXCEPT !.total_calls = @ + 1]
          /\ folding' = [folding EXCEPT ![t].at = "read_n"]
    /\ UNCHANGED <<call_state, registry, tools, update_memory, pc, agent_i,
                   waiting, invoked, cap_log, got, folded>>

\* memory.total_calls += 1, its write
WriteTotal ==
    /\ pc = "race"
    /\ \E t \in DOMAIN folding :
          /\ folding[t].at = "write_total"
          /\ memory' = [memory EXCEPT !.total_calls = folding[t].total + 1]
          /\ folding' = [folding EXCEPT ![t].at = "read_n"]
    /\ UNCHANGED <<call_state, registry, tools, update_memory, pc, agent_i,
                   waiting, invoked, cap_log, got, folded>>

\* n = memory.total_calls
ReadN ==
    /\ pc = "race"
    /\ \E t \in DOMAIN folding :
          /\ folding[t].at = "read_n"
          /\ folding' = [folding EXCEPT ![t].n = memory.total_calls,
                                        ![t].at = "read_count"]
    /\ UNCHANGED <<call_state, memory, registry, tools, update_memory, pc,
                   agent_i, waiting, invoked, cap_log, got, folded>>

\* memory.<table>.get(key, 0)
ReadCount ==
    /\ pc = "race"
    /\ \E t \in DOMAIN folding :
          LET counter == Counters(FoldingCalls[t])[folding[t].i]
          IN /\ folding[t].at = "read_count"
             /\ folding' = [folding EXCEPT
                    ![t].count = DictGetOr(memory[counter[1]], counter[2], 0),
                    ![t].at = "write_count"]
    /\ UNCHANGED <<call_state, memory, registry, tools, update_memory, pc,
                   agent_i, waiting, invoked, cap_log, got, folded>>

\* memory.<table>[key] = ... + 1, and on to the next counter or average
WriteCount ==
    /\ pc = "race"
    /\ \E t \in DOMAIN folding :
          LET todo == Counters(FoldingCalls[t])
              counter == todo[folding[t].i]
              i == folding[t].i + 1
          IN /\ folding[t].at = "write_count"
             /\ memory' = [memory EXCEPT ![counter[1]] =
                                (counter[2] :> folding[t].count + 1) @@ @]
             /\ folding' = [folding EXCEPT
                    ![t].i = i,
                    ![t].at = IF i > Len(todo) THEN "done"
                              ELSE IF todo[i][2] \in Range(SCORE_KEYS)
                                   THEN "read_avg" ELSE "read_count"]
    /\ UNCHANGED <<call_state, registry, tools, update_memory, pc, agent_i,
                   waiting, invoked, cap_log, got, folded>>

\* the current_avg argument of _update_running_avg
ReadAverage ==
    /\ pc = "race"
    /\ \E t \in DOMAIN folding :
          LET average == Counters(FoldingCalls[t])[folding[t].i]
          IN /\ folding[t].at = "read_avg"
             /\ folding' = [folding EXCEPT ![t].avg = memory[average[1]],
                                           ![t].at = "write_avg"]
    /\ UNCHANGED <<call_state, memory, registry, tools, update_memory, pc,
                   agent_i, waiting, invoked, cap_log, got, folded>>

\* memory.avg_... = _update_running_avg(...), and on to the next average
WriteAverage ==
    /\ pc = "race"
    /\ \E t \in DOMAIN folding :
          LET todo == Counters(FoldingCalls[t])
              average == todo[folding[t].i]
              i == folding[t].i + 1
          IN /\ folding[t].at = "write_avg"
             /\ memory' = [memory EXCEPT ![average[1]] =
                    _update_running_avg(folding[t].avg,
                                        FoldingCalls[t].evaluation[average[2]],
                                        folding[t].n)]
             /\ folding' = [folding EXCEPT
                    ![t].i = i,
                    ![t].at = IF i > Len(todo) THEN "done" ELSE "read_avg"]
    /\ UNCHANGED <<call_state, registry, tools, update_memory, pc, agent_i,
                   waiting, invoked, cap_log, got, folded>>

SpecRace ==
    InitRace /\ [][ReadTotal \/ WriteTotal \/ ReadN \/ ReadCount \/ WriteCount
                      \/ ReadAverage \/ WriteAverage]_vars

-----------------------------------------------------------------------------
(* graph/supervisor.py: run_pipeline called again and again on GLOBAL_MEMORY, *)
(* with an LLM that answers the evaluator and fails every other prompt       *)

MaxRuns == 3

\* the answer of a client whose calls raise except for the evaluator's
StubAnswers ==
    /\ CapabilityAnswers
    /\ CurrentAgent # "evaluation" => cap_log'[Len(cap_log')].resp.raises

\* the next call starting from a fresh memory instead of GLOBAL_MEMORY
NextCall_fresh_memory ==
    /\ pc = "done"
    /\ Len(folded) + (IF update_memory THEN 1 ELSE 0) < MaxRuns
    /\ call_state' \in {CallState(raw) : raw \in Transcripts}
    /\ memory' = MemoryState
    /\ pc' = "agents"
    /\ agent_i' = 1
    /\ waiting' = FALSE
    /\ invoked' = <<>>
    /\ cap_log' = <<>>
    /\ folded' = IF update_memory THEN Append(folded, call_state) ELSE folded
    /\ UNCHANGED <<registry, tools, update_memory, got, folding>>

\* the caller's next call of run_pipeline once the last one has returned, on
\* any transcript with the same capabilities and flag: a new CallState, the
\* memory as it is; folded keeps the CallState of every run that went
\* through the fold
NextCall ==
    /\ pc = "done"
    /\ Len(folded) + (IF update_memory THEN 1 ELSE 0) < MaxRuns
    /\ call_state' \in {CallState(raw) : raw \in Transcripts}
    /\ pc' = "agents"
    /\ agent_i' = 1
    /\ waiting' = FALSE
    /\ invoked' = <<>>
    /\ cap_log' = <<>>
    /\ folded' = IF update_memory THEN Append(folded, call_state) ELSE folded
    /\ UNCHANGED <<memory, registry, tools, update_memory, got, folding>>

SpecRuns ==
    Init /\ [][InvokeAgent \/ StubAnswers \/ UpdateMemory \/ ReturnWithoutMemory
                  \/ NextCall]_vars

-----------------------------------------------------------------------------
(* Properties of run_pipeline *)

\* the agents of a run that returns, in the order run_pipeline calls them
CanonicalRun ==
    << "cleaning", "entities", "summarization", "sentiment", "frustration_loop",
       "pain_points", "actions", "evaluation" >>

\* every capability call of the run so far raised
EveryCallRaised == \A i \in 1..Len(cap_log) : cap_log[i].resp.raises

\* the capability calls of the run so far that the LLM answered
LLMCalls == {i \in 1..Len(cap_log) : cap_log[i].agent # "cleaning"}

\* C1: with the registry intact, run_pipeline never raises, whatever the
\* transcript is and whatever the cleaner and the LLM do: every agent, the
\* evaluation agent included, catches the problem locally.
C1_NeverRaises == registry = AGENT_REGISTRY => pc # "raised"

\* C2: the supervisor is linear.  At every moment the agents invoked so far
\* are an initial part of cleaning, entities, summarization, sentiment,
\* frustration_loop, pain_points, actions, evaluation: each at most once, in
\* that order, evaluation last and never twice.  The memory is folded only
\* after all eight, and only if requested; run_pipeline returns only after
\* all eight and after the fold if it was requested.
C2_Order ==
    /\ \E n \in 0..Len(CanonicalRun) : invoked = SubSeq(CanonicalRun, 1, n)
    /\ pc \in {"memory", "done"} => invoked = CanonicalRun
    /\ memory # MemoryState => update_memory /\ invoked = CanonicalRun
                                /\ pc \in {"done", "raised"}
    /\ pc = "done" => memory = IF update_memory
                               THEN update_memory_from_call(MemoryState, call_state)
                               ELSE MemoryState

\* C2, the step: an agent is invoked only when the one before it has returned
C2_Step ==
    invoked' # invoked =>
        /\ ~waiting
        /\ pc \in {"agents", "evaluation"}
        /\ call_state.step_count = Len(invoked)

C2_LinearOrder == []C2_Order /\ [][C2_Step]_vars

\* a run that went through all eight agents, folded the memory and returned
C2_FullRunFolded ==
    /\ pc = "done"
    /\ update_memory
    /\ invoked = CanonicalRun
    /\ memory.total_calls = 1

\* C3: every agent invocation increases step_count by exactly 1, on every
\* path: once an invocation is over, step_count is the number of agents
\* invoked.
C3_StepPerInvocation == ~waiting => call_state.step_count = Len(invoked)

\* C4: for a non-empty raw_transcript and any capabilities, the CallState
\* run_pipeline returns has every output field populated: the cleaned text is
\* the cleaner's answer or else the rule-based cleaning of the transcript and
\* the utterances are its segmentation; entities is a mapping; summary and
\* sentiment are non-empty; frustration_timeline, pain_points and
\* recommended_actions are non-empty; evaluation holds the three scores and
\* the basic metrics.
C4_OutputsPopulated ==
    (pc = "done" /\ call_state.raw_transcript # "") =>
        /\ call_state.cleaned_transcript =
              IF tools.cleaner /\ ~cap_log[1].resp.raises
              THEN cap_log[1].resp.content
              ELSE _fallback_clean(call_state.raw_transcript)
        /\ call_state.utterances = _split_utterances(call_state.cleaned_transcript)
        /\ call_state.entities.t = "dict"
        /\ call_state.summary # ""
        /\ call_state.sentiment # ""
        /\ call_state.frustration_timeline # <<>>
        /\ call_state.pain_points # <<>>
        /\ call_state.recommended_actions # <<>>
        /\ { "faithfulness_score", "coverage_score", "consistency_score",
             "tool_calls", "tool_successes", "tool_success_rate", "step_count" }
              \subseteq DOMAIN call_state.evaluation

\* a run on a spoken transcript that returned although every capability call
\* raised
C4_ReturnedWithFailingStub ==
    /\ pc = "done"
    /\ call_state.raw_transcript = RAW_CALL
    /\ tools.llm /\ tools.cleaner
    /\ EveryCallRaised

\* the cleaner is absent, raises, or gives back the empty string
CleanerLeavesEmpty ==
    ~tools.cleaner \/ cap_log[1].resp.raises \/ cap_log[1].resp.content = ""

\* the LLM is absent, or every call to it raised
LLMAbsentOrFails == ~tools.llm \/ \A i \in LLMCalls : cap_log[i].resp.raises

\* C5 as stated: for raw_transcript = "" the returned CallState has
\* sentiment "unknown" and the no-content summary whatever the capabilities
\* do, and the one fallback pain point when the LLM is absent or fails.
C5_EmptyTranscriptAnyCapabilities ==
    (pc = "done" /\ call_state.raw_transcript = "") =>
        /\ call_state.sentiment = "unknown"
        /\ call_state.summary = "No transcript content was available to summarize."
        /\ LLMAbsentOrFails =>
              call_state.pain_points = <<"unclear primary pain point">>

\* C5: for raw_transcript = "" and a cleaner that is absent, raises or gives
\* back the empty string, the returned CallState has sentiment "unknown" and
\* the no-content summary whatever the LLM does: summarization and sentiment
\* return without calling the LLM, while the agents after them still run;
\* and pain_points is the one fallback pain point when the LLM is absent or
\* every call to it raises.
C5_EmptyTranscript ==
    (pc = "done" /\ call_state.raw_transcript = "" /\ CleanerLeavesEmpty) =>
        /\ call_state.sentiment = "unknown"
        /\ call_state.summary = "No transcript content was available to summarize."
        /\ \A i \in LLMCalls : cap_log[i].agent \notin {"summarization", "sentiment"}
        /\ tools.llm => {"pain_points", "actions", "evaluation"}
                            \subseteq {cap_log[i].agent : i \in LLMCalls}
        /\ LLMAbsentOrFails =>
              call_state.pain_points = <<"unclear primary pain point">>

\* a returned run on the empty transcript whose cleaner gave back nothing and
\* whose LLM answered the agents that asked it
C5_EmptyTranscriptWithLLM ==
    /\ pc = "done"
    /\ call_state.raw_transcript = ""
    /\ tools.cleaner /\ ~cap_log[1].resp.raises /\ cap_log[1].resp.content = ""
    /\ tools.llm /\ \A i \in LLMCalls : ~cap_log[i].resp.raises

\* C6 as stated: for raw_transcript = "" the returned step_count is
\* len(AGENT_EXECUTION_ORDER).
C6_StepCountIsOrderLength ==
    (pc = "done" /\ call_state.raw_transcript = "") =>
        call_state.step_count = Len(AGENT_EXECUTION_ORDER)

\* C6: for raw_transcript = "" the returned step_count is
\* len(AGENT_EXECUTION_ORDER) + 1: the seven agents of the execution order
\* and the evaluation agent, which is not in it.
C6_StepCountEmptyTranscript ==
    (pc = "done" /\ call_state.raw_transcript = "") =>
        call_state.step_count = Len(AGENT_EXECUTION_ORDER) + 1

\* a returned run on the empty transcript in which summarization, sentiment
\* and frustration_loop took their early return
C6_EmptyTranscriptReturned ==
    /\ pc = "done"
    /\ call_state.raw_transcript = ""
    /\ call_state.cleaned_transcript = ""
    /\ call_state.frustration_timeline = <<>>
    /\ call_state.step_count = 8

\* run_pipeline's agents run in order with no capability supplied
RECURSIVE RunWithoutCapabilities(_, _)
RunWithoutCapabilities(cs, names) ==
    IF names = <<>> THEN cs
    ELSE RunWithoutCapabilities(
            AgentBegin(Head(names), cs, [llm |-> FALSE, cleaner |-> FALSE]).state,
            Tail(names))

\* the outputs of a CallState: everything the agents write but the counters
\* and the metrics computed from them
Outputs(cs) ==
    [ cleaned_transcript   |-> cs.cleaned_transcript,
      utterances           |-> cs.utterances,
      entities             |-> cs.entities,
      summary              |-> cs.summary,
      sentiment            |-> cs.sentiment,
      frustration_timeline |-> cs.frustration_timeline,
      pain_points          |-> cs.pain_points,
      recommended_actions  |-> cs.recommended_actions,
      messages             |-> cs.messages,
      scores               |-> [k \in {"faithfulness_score", "coverage_score",
                                       "consistency_score", "eval_notes"} |->
                                    cs.evaluation[k]] ]

\* C7: when a capability is supplied and every call to it fails, run_pipeline
\* completes, every output is the one the rule-based fallbacks produce, and
\* the final state has tool_calls > 0, tool_successes = 0 and
\* evaluation.tool_success_rate = 0.0.
C7_EveryCallFails ==
    ((tools.llm \/ tools.cleaner) /\ EveryCallRaised) =>
        /\ pc # "raised"
        /\ pc = "done" =>
            /\ Outputs(call_state) =
                  Outputs(RunWithoutCapabilities(CallState(call_state.raw_transcript),
                                                 CanonicalRun))
            /\ call_state.tool_calls > 0
            /\ call_state.tool_successes = 0
            /\ call_state.evaluation.tool_success_rate = <<0, 1>>

\* a returned run on a spoken transcript with a cleaner and an LLM whose
\* eight calls all raised
C7_EightCallsRaised ==
    /\ pc = "done"
    /\ call_state.raw_transcript = RAW_CALL
    /\ tools.llm /\ tools.cleaner
    /\ Len(cap_log) = 8
    /\ EveryCallRaised
    /\ call_state.pain_points # <<"unclear primary pain point">>

\* C8: in every state of a run tool_calls >= tool_successes, and no step of
\* the run decreases tool_calls, tool_successes or step_count.
C8_CallsCoverSuccesses == call_state.tool_calls >= call_state.tool_successes

\* C8, the step: no counter goes down
C8_NoDecrease ==
    /\ call_state'.tool_calls >= call_state.tool_calls
    /\ call_state'.tool_successes >= call_state.tool_successes
    /\ call_state'.step_count >= call_state.step_count

C8_CountersMonotone == []C8_CallsCoverSuccesses /\ [][C8_NoDecrease]_vars

\* a returned run in which some capability calls succeeded and some failed
C8_SomeCallsSucceeded ==
    /\ pc = "done"
    /\ call_state.tool_successes >= 2
    /\ call_state.tool_calls >= call_state.tool_successes + 2

\* the step in which the blocked agent gets its capability's answer
IsAnswerStep == waiting /\ ~waiting'

\* the step in which an agent gets to its capability call
IsCallStep == ~waiting /\ waiting'

\* the answer an answer step delivers
Answer == cap_log'[Len(cap_log')].resp

\* the answer is text that is not JSON, to an agent that expects JSON
FailsToParse(name, r) ==
    /\ name \in {"entities", "frustration_loop", "pain_points", "actions", "evaluation"}
    /\ ~r.raises
    /\ r.json = NotJSON

\* C9 as stated: tool_calls is incremented before the capability is invoked;
\* tool_successes is incremented only after a response that was returned
\* without error and parsed: a response that fails to parse leaves it
\* unchanged.
C9_SuccessOnlyIfParsed ==
    [][ /\ IsCallStep =>
            /\ call_state'.tool_calls = call_state.tool_calls + 1
            /\ call_state'.tool_successes = call_state.tool_successes
        /\ IsAnswerStep =>
            /\ call_state'.tool_calls = call_state.tool_calls
            /\ call_state'.tool_successes \in
                  {call_state.tool_successes, call_state.tool_successes + 1}
            /\ (Answer.raises \/ FailsToParse(CurrentAgent, Answer)) =>
                  call_state'.tool_successes = call_state.tool_successes ]_vars

\* C9: tool_calls is incremented before the capability is invoked;
\* tool_successes is incremented when the capability has returned without
\* error, before the response is parsed: a call that raises leaves it
\* unchanged, a response that fails to parse still counts as a success.
C9_SuccessCountsReturn ==
    [][ /\ IsCallStep =>
            /\ call_state'.tool_calls = call_state.tool_calls + 1
            /\ call_state'.tool_successes = call_state.tool_successes
        /\ IsAnswerStep =>
            /\ call_state'.tool_calls = call_state.tool_calls
            /\ call_state'.tool_successes =
                  IF Answer.raises THEN call_state.tool_successes
                  ELSE call_state.tool_successes + 1 ]_vars

\* the entities agent has just been answered with prose and has returned
C9_ProseCounted ==
    /\ ~waiting
    /\ Len(cap_log) = 1
    /\ cap_log[1].agent = "entities"
    /\ FailsToParse("entities", cap_log[1].resp)
    /\ invoked = <<"cleaning", "entities">>
    /\ call_state.tool_calls = 1
    /\ call_state.tool_successes = 1

\* the output field of an agent
OutputField(name, cs) ==
    CASE name = "entities" -> cs.entities
      [] name = "sentiment" -> cs.sentiment
      [] name = "frustration_loop" -> cs.frustration_timeline
      [] name = "pain_points" -> cs.pain_points
      [] name = "actions" -> cs.recommended_actions
      [] name = "evaluation" ->
            [k \in (DOMAIN cs.evaluation) \cap
                   {"faithfulness_score", "coverage_score", "consistency_score",
                    "eval_notes"} |-> cs.evaluation[k]]

\* the answer came back without error but is not what the agent asks for: an
\* object for entities and evaluation, a label for sentiment, a list for
\* frustration_loop, pain_points and actions
SchemaMismatch(name, r) ==
    /\ ~r.raises
    /\ CASE name \in {"entities", "evaluation"} -> r.json.t # "dict"
         [] name = "sentiment" -> FirstWordLetters(r.content) \notin ALLOWED_LABELS
         [] name \in {"frustration_loop", "pain_points", "actions"} ->
                r.json.t # "list"
         [] OTHER -> FALSE

\* the answer came back without error but is not JSON (entities,
\* frustration_loop, pain_points, actions, evaluation) or, for pain_points,
\* is JSON that is not a list
UnusableAnswer(name, r) ==
    \/ FailsToParse(name, r)
    \/ name = "pain_points" /\ ~r.raises /\ r.json.t # "list"

-----------------------------------------------------------------------------
(* Properties of the message bus *)

\* the positions in log of the messages agent_name reads under msg_type
Addressed(log, agent_name, msg_type) ==
    {i \in 1..Len(log) : /\ log[i].to \in {agent_name, "any"}
                         /\ msg_type # JNull => log[i].type = msg_type.s}

\* the k-th smallest of a set of positions
Kth(positions, k) ==
    CHOOSE i \in positions : Cardinality({j \in positions : j < i}) = k - 1

\* C11: whatever was sent, get_messages_for_agent(agent_name = X, msg_type = T)
\* returns exactly the messages of state.messages addressed to X or to "any"
\* (and of type T when T is given), each once and in the order they were
\* sent; it never returns a message addressed to another named agent.
C11_ReadsAddressedInOrder ==
    got.called =>
        LET mine == Addressed(got.log, got.agent_name, got.msg_type)
        IN /\ Len(got.result) = Cardinality(mine)
           /\ \A k \in 1..Len(got.result) :
                 /\ got.result[k] = got.log[Kth(mine, k)]
                 /\ got.result[k].to \in {got.agent_name, "any"}

\* a typed read returned a broadcast and a message of its own, and left out
\* a message addressed to another agent
C11_ReadSkippedAnother ==
    /\ got.called
    /\ got.msg_type # JNull
    /\ Len(got.result) = 2
    /\ {got.result[1].to, got.result[2].to} = {got.agent_name, "any"}
    /\ \E i \in 1..Len(got.log) : got.log[i].to \notin {got.agent_name, "any"}

IsPrefix(s, t) == Len(s) <= Len(t) /\ SubSeq(t, 1, Len(s)) = s

\* C12, one step: the log only grows at its end; a direct send_message adds
\* exactly one message and changes no other field of the CallState; a
\* get_messages_for_agent changes nothing and returns what a second call
\* with the same arguments returns
C12_Step ==
    /\ IsPrefix(call_state.messages, call_state'.messages)
    /\ pc = "bus" /\ call_state' # call_state =>
          /\ Len(call_state'.messages) = Len(call_state.messages) + 1
          /\ call_state'.messages[Len(call_state'.messages)].to \in BusRecipients
          /\ [call_state' EXCEPT !.messages = call_state.messages] = call_state
          /\ UNCHANGED <<memory, got>>
    /\ got' # got =>
          /\ call_state' = call_state
          /\ got'.result = get_messages_for_agent(call_state', got'.agent_name,
                                                  got'.msg_type)

\* C12: the message bus is an append-only log.  send_message, to any
\* recipient, registered or not, puts one message last and changes nothing
\* else; get_messages_for_agent changes nothing and repeats its result; at
\* every later point of a run the earlier log is a prefix of the current one.
C12_AppendOnly == [][C12_Step]_vars

\* a message was sent to an unregistered name after a read
C12_SentToUnregisteredAfterRead ==
    /\ got.called
    /\ got.result # <<>>
    /\ Len(got.log) < Len(call_state.messages)
    /\ call_state.messages[Len(call_state.messages)].to \notin AGENT_REGISTRY

-----------------------------------------------------------------------------
(* Properties of the memory fold *)

\* the fraction a float is named by
Exact(x) == <<x[1], x[2]>>

\* how many units in the last place a float lies from the double nearest
\* that fraction
Ulps(x) == IF Len(x) = 3 THEN x[3] ELSE 0

\* the values the folded calls supplied for a score, in the order folded
Supplied(key) ==
    LET supplies(cs) == key \in DOMAIN cs.evaluation
        calls == SelectSeq(folded, supplies)
    IN [i \in 1..Len(calls) |-> calls[i].evaluation[key]]

\* the running average the memory keeps for a score
Average(mem, key) ==
    CASE key = "faithfulness_score" -> mem.avg_faithfulness
      [] key = "coverage_score"     -> mem.avg_coverage
      [] key = "consistency_score"  -> mem.avg_consistency

\* the sum and the arithmetic mean of fractions, in exact arithmetic
RECURSIVE SumOf(_)
SumOf(values) ==
    IF values = <<>> THEN FZero
    ELSE LET v == Head(values)
             rest == SumOf(Tail(values))
         IN Frac(v[1] * rest[2] + rest[1] * v[2], v[2] * rest[2])

Mean(values) ==
    LET total == SumOf(values) IN Frac(total[1], total[2] * Len(values))

\* C13: after folding calls into a fresh MemoryState, each of which supplies
\* a score or omits it, the running average of the score is the arithmetic
\* mean of exactly the supplied values (here: up to float rounding); the
\* calls that omit the score do not enter the divisor.
C13_MeanOfSupplied ==
    \A i \in 1..Len(SCORE_KEYS) :
        Supplied(SCORE_KEYS[i]) # <<>> =>
            Exact(Average(memory, SCORE_KEYS[i])) = Mean(Supplied(SCORE_KEYS[i]))

\* C14 as stated: when every fold supplies a score, its running average is
\* the arithmetic mean of the values (0.8 then 0.4 gives 0.6).
C14_MeanWhenAlwaysSupplied ==
    \A i \in 1..Len(SCORE_KEYS) :
        folded # <<>> /\ Len(Supplied(SCORE_KEYS[i])) = Len(folded) =>
            Average(memory, SCORE_KEYS[i]) = Mean(Supplied(SCORE_KEYS[i]))

\* one fold: total_calls is incremented first, and with n the incremented
\* total_calls each score present in evaluation moves its average to
\* avg + (value - avg) / n, each absent score leaves its average alone
C14_FoldLaw ==
    memory' # memory =>
        LET cs == folded'[Len(folded')]
            n == memory.total_calls + 1
        IN /\ memory'.total_calls = n
           /\ \A i \in 1..Len(SCORE_KEYS) :
                 LET key == SCORE_KEYS[i]
                     avg == Average(memory, key)
                 IN Average(memory', key) =
                        IF key \in DOMAIN cs.evaluation
                        THEN FAdd(avg, FDiv(FSub(cs.evaluation[key], avg), n))
                        ELSE avg

\* when every fold supplied the score, the average is the double nearest
\* the arithmetic mean or one fewer than Len(folded) places next to it
C14_MeanWithinRounding ==
    \A i \in 1..Len(SCORE_KEYS) :
        folded # <<>> /\ Len(Supplied(SCORE_KEYS[i])) = Len(folded) =>
            /\ Exact(Average(memory, SCORE_KEYS[i])) = Mean(Supplied(SCORE_KEYS[i]))
            /\ Abs(Ulps(Average(memory, SCORE_KEYS[i]))) < Len(folded)

\* C14: each update_memory_from_call increments total_calls first, then
\* moves the average of each score present to avg + (value - avg) / n with
\* n the incremented total_calls, and leaves the average of an absent score
\* unchanged; from a fresh MemoryState in which every fold supplies the
\* score, the average is the arithmetic mean of the values up to the
\* rounding of the float operations (0.8 then 0.4 gives 0.6000000000000001).
C14_RunningMean == []C14_MeanWithinRounding /\ [][C14_FoldLaw]_vars

\* 0.8 then 0.4 were folded into a fresh memory
C14_EightTenthsThenFourTenths ==
    /\ Len(folded) = 2
    /\ Supplied("faithfulness_score") = <<Frac(4, 5), Frac(2, 5)>>
    /\ memory.avg_faithfulness = <<3, 5, 1>>

\* dict.get(key, 0)
Count(d, key) == IF key \in DOMAIN d THEN d[key] ELSE 0

\* how often a value occurs in a list
Multiplicity(seq, v) == Cardinality({i \in 1..Len(seq) : seq[i] = v})

\* the product a call counts, if any
CountedProduct(cs) ==
    LET product == DictGet(cs.entities.d, "product")
    IN IF product.t = "str" /\ product.s # "" THEN {product.s} ELSE {}

\* what folding a call k times adds to a memory: k to total_calls, k to the
\* call's sentiment, k times its multiplicity to each pain point, k to its
\* product, and nothing to any other key
Adds(before, after, cs, k) ==
    LET sentiment == IF cs.sentiment # "" THEN cs.sentiment ELSE "unknown"
    IN /\ after.total_calls = before.total_calls + k
       /\ DOMAIN after.sentiment_counts =
              DOMAIN before.sentiment_counts \cup {sentiment}
       /\ \A key \in DOMAIN after.sentiment_counts :
              after.sentiment_counts[key] = Count(before.sentiment_counts, key)
                  + (IF key = sentiment THEN k ELSE 0)
       /\ DOMAIN after.pain_point_counts =
              DOMAIN before.pain_point_counts \cup Range(cs.pain_points)
       /\ \A key \in DOMAIN after.pain_point_counts :
              after.pain_point_counts[key] = Count(before.pain_point_counts, key)
                  + k * Multiplicity(cs.pain_points, key)
       /\ DOMAIN after.product_issue_counts =
              DOMAIN before.product_issue_counts \cup CountedProduct(cs)
       /\ \A key \in DOMAIN after.product_issue_counts :
              after.product_issue_counts[key] = Count(before.product_issue_counts, key)
                  + (IF key \in CountedProduct(cs) THEN k ELSE 0)

\* one fold adds its increments once
C15_FoldAdds ==
    memory' # memory => Adds(memory, memory', folded'[Len(folded')], 1)

\* the same call folded k times into a fresh memory adds them k times
C15_SameCallAddsTimes ==
    folded # <<>> /\ (\A i \in 1..Len(folded) : folded[i] = folded[1]) =>
        Adds(MemoryState, memory, folded[1], Len(folded))

\* C15: one update_memory_from_call adds 1 to total_calls, 1 to the count of
\* the call's sentiment ("unknown" when empty), to each pain point as many
\* as it occurs in state.pain_points, and 1 to the count of the product only
\* when entities has a non-empty product; the same CallState folded k times
\* adds k times as much to each of these keys, and no other key is touched.
C15_Counts == []C15_SameCallAddsTimes /\ [][C15_FoldAdds]_vars

\* a call with a repeated pain point and a product was folded more than once
C15_RepeatedPainPointFoldedTwice ==
    /\ Len(folded) >= 2
    /\ \A i \in 1..Len(folded) : folded[i] = folded[1]
    /\ Multiplicity(folded[1].pain_points, "Refund is late") = 2
    /\ memory.pain_point_counts["Refund is late"] = 2 * Len(folded)
    /\ memory.product_issue_counts["credit card"] = Len(folded)

-----------------------------------------------------------------------------
(* Properties of the registry *)

\* the positions of AGENT_EXECUTION_ORDER whose name is not registered
Unregistered ==
    {i \in 1..Len(AGENT_EXECUTION_ORDER) : AGENT_EXECUTION_ORDER[i] \notin registry}

\* no unregistered name is ever run, as itself or as a no-op; a run whose
\* order has an unregistered name never gets past it: it runs the agents
\* before it and nothing else, folds nothing and does not return
C16_NeverPast ==
    /\ \A i \in 1..Len(invoked) : invoked[i] \in registry
    /\ call_state.step_count <= Len(invoked)
    /\ \A k \in Unregistered :
          /\ pc \in {"agents", "raised"}
          /\ agent_i <= k
          /\ invoked = SubSeq(AGENT_EXECUTION_ORDER, 1, Len(invoked))
          /\ Len(invoked) < k
          /\ memory = MemoryState

\* when the for loop asks get_agent for an unregistered name, the call raises
\* and run_pipeline with it: no agent runs, nothing is advanced
C16_Raises ==
    pc = "agents" /\ ~waiting /\ CurrentAgent \notin registry =>
        pc' = "raised" /\ UNCHANGED <<call_state, memory, invoked, agent_i>>

\* C16: get_agent on a name that is not registered always raises KeyError
\* and never returns a no-op; when a name of the canonical order is
\* unregistered, run_pipeline stops at that name, runs no later agent and
\* raises to its caller.
C16_UnknownAgent == []C16_NeverPast /\ [][C16_Raises]_vars

\* run_pipeline raised at an unregistered name after running the agents
\* before it
C16_RaisedAtUnregistered ==
    /\ pc = "raised"
    /\ agent_i \in Unregistered
    /\ agent_i > 3
    /\ invoked = SubSeq(AGENT_EXECUTION_ORDER, 1, agent_i - 1)

\* with the evaluation agent unregistered: it is never run, the run that
\* reaches its end returns the CallState of the seven agents with evaluation
\* empty, and a fold counts the call and leaves the three averages alone
C17_Skipped ==
    "evaluation" \notin registry =>
        /\ "evaluation" \notin Range(invoked)
        /\ call_state.evaluation = EmptyDict
        /\ pc \in {"memory", "done"} =>
              /\ Range(invoked) = Range(AGENT_EXECUTION_ORDER)
              /\ call_state.step_count = Len(AGENT_EXECUTION_ORDER)
        /\ pc = "done" => (memory # MemoryState) = update_memory
        /\ memory # MemoryState =>
              /\ memory.total_calls = 1
              /\ memory.sentiment_counts =
                    (StrOr(call_state.sentiment, "unknown") :> 1)
              /\ \A p \in Range(call_state.pain_points) :
                    Count(memory.pain_point_counts, p) >= 1
              /\ memory.avg_faithfulness = MemoryState.avg_faithfulness
              /\ memory.avg_coverage = MemoryState.avg_coverage
              /\ memory.avg_consistency = MemoryState.avg_consistency

\* the KeyError of get_agent("evaluation") is caught: run_pipeline goes on
\* to the memory update with the CallState as the seven agents left it
C17_SkipStep ==
    pc = "evaluation" /\ "evaluation" \notin registry =>
        pc' = "memory" /\ UNCHANGED <<call_state, memory, invoked>>

\* C17: if the evaluation agent is absent from the registry, run_pipeline
\* skips it without failing: it returns the CallState the seven pipeline
\* agents produced, evaluation left empty, and a requested memory fold still
\* increments total_calls and the frequency tables and leaves the three
\* running averages unchanged.
C17_EvaluationAbsent == []C17_Skipped /\ [][C17_SkipStep]_vars

\* a run without the evaluation agent that used the LLM returned and folded
C17_ReturnedWithoutEvaluation ==
    /\ "evaluation" \notin registry
    /\ pc = "done"
    /\ update_memory
    /\ call_state.tool_successes > 0
    /\ call_state.evaluation = EmptyDict
    /\ memory.total_calls = 1
    /\ memory.avg_faithfulness = FZero

-----------------------------------------------------------------------------
(* Properties of the shared memory *)

\* C18: the shared MemoryState changes only through a run_pipeline call that
\* ran all its agents to the end with update_memory set, and then by exactly
\* one fold (total_calls + 1) made after the evaluation agent; a run with
\* update_memory not set, and a run that ends in an exception, leave every
\* MemoryState field unchanged.
C18_MemoryOnlyByCompletedRun ==
    /\ memory # MemoryState =>
          /\ update_memory
          /\ invoked = CanonicalRun
          /\ memory.total_calls = 1
    /\ ~update_memory => memory = MemoryState
    /\ pc = "raised" => memory = MemoryState

-----------------------------------------------------------------------------
(* Properties of compute_basic_eval *)

\* what the evaluation agent merged from compute_basic_eval: the counters
\* of the CallState as they were at the call (step_count before the
\* evaluation agent counted its own step) and the success rate
C19_Reported ==
    call_state.evaluation # EmptyDict =>
        LET reported == call_state.evaluation
        IN /\ reported.tool_calls = call_state.tool_calls
           /\ reported.tool_successes = call_state.tool_successes
           /\ reported.step_count = call_state.step_count - 1
           /\ call_state.tool_calls > 0 =>
                 reported.tool_success_rate =
                     Frac(call_state.tool_successes, call_state.tool_calls)
           /\ call_state.tool_calls = 0 => reported.tool_success_rate = FOne
           /\ ~tools.llm /\ ~tools.cleaner => reported.tool_success_rate = FOne

\* the step that reports changes nothing of the CallState but evaluation and
\* the counters the evaluation agent itself advances
C19_Untouched ==
    call_state'.evaluation # call_state.evaluation =>
        [call_state' EXCEPT !.evaluation = call_state.evaluation,
                            !.step_count = call_state.step_count,
                            !.tool_calls = call_state.tool_calls,
                            !.tool_successes = call_state.tool_successes]
            = call_state

\* C19: compute_basic_eval does not modify the CallState; it returns
\* tool_calls, tool_successes and step_count as the state has them at the
\* call, and tool_success_rate = tool_successes / tool_calls when tool_calls
\* is positive and 1.0 when it is 0, so that a run without LLM and without
\* cleaner reports rate 1.0.
C19_BasicEval == []C19_Reported /\ [][C19_Untouched]_vars

\* a run without LLM and without cleaner returned, reporting rate 1.0
C19_NoToolsRateOne ==
    /\ pc = "done"
    /\ ~tools.llm
    /\ ~tools.cleaner
    /\ call_state.evaluation # EmptyDict
    /\ call_state.evaluation.tool_calls = 0
    /\ call_state.evaluation.tool_success_rate = FOne

-----------------------------------------------------------------------------
(* Properties of two folds at once *)

\* both folds have returned
AllFolded == \A t \in DOMAIN folding : folding[t].at = "done"

\* the memory after the two calls folded one after the other, in both orders
SerialFolds ==
    { update_memory_from_call(
          update_memory_from_call(MemoryState, FoldingCalls[order[1]]),
          FoldingCalls[order[2]]) :
        order \in
            {o \in (DOMAIN FoldingCalls) \X (DOMAIN FoldingCalls) : o[1] # o[2]} }

\* C20: update_memory_from_call holds no lock.  When two folds of one
\* MemoryState interleave at their reads and writes, every write puts back
\* what its fold read earlier: the final total_calls is one more than the
\* larger of the two totals read, and so is the count of the sentiment both
\* calls have (each at least 1, at most the number of folds, and smaller
\* than it when both folds read the same value); the final average is the
\* one some fold computed from the average and the n it read, and n is
\* whatever total_calls was at that moment.
C20_WritesBackWhatItRead ==
    AllFolded /\ folding # <<>> =>
        /\ \E t \in DOMAIN folding :
              /\ memory.total_calls = folding[t].total + 1
              /\ \A u \in DOMAIN folding : folding[u].total <= folding[t].total
        /\ memory.total_calls \in 1..Cardinality(DOMAIN folding)
        /\ memory.sentiment_counts["negative"] \in 1..Cardinality(DOMAIN folding)
        /\ memory.pain_point_counts = MemoryState.pain_point_counts
                                          @@ ("Refund is late" :> 1)
        /\ \A t \in DOMAIN folding :
              folding[t].n \in (folding[t].total + 1)..Cardinality(DOMAIN folding)
        /\ \E t \in DOMAIN folding :
              memory.avg_faithfulness =
                  _update_running_avg(folding[t].avg,
                                      FoldingCalls[t].evaluation.faithfulness_score,
                                      folding[t].n)
        /\ (\E t, u \in DOMAIN folding : t # u /\ folding[t].total = folding[u].total)
              => memory.total_calls < Cardinality(DOMAIN folding)

\* both folds returned and an update is lost: total_calls and the sentiment
\* count are smaller than the number of folds, both folds used the same n,
\* and the average is the one of neither serial order
C20_LostUpdate ==
    /\ folding # <<>>
    /\ AllFolded
    /\ memory.total_calls < Cardinality(DOMAIN folding)
    /\ memory.sentiment_counts["negative"] < Cardinality(DOMAIN folding)
    /\ folding["a"].n = folding["b"].n
    /\ \A serial \in SerialFolds : memory.avg_faithfulness # serial.avg_faithfulness

-----------------------------------------------------------------------------
(* Properties of the CallState fields *)

\* the agent that writes each output field
Writer ==
    [ cleaned_transcript   |-> "cleaning",
      utterances           |-> "cleaning",
      entities             |-> "entities",
      summary              |-> "summarization",
      sentiment            |-> "sentiment",
      frustration_timeline |-> "frustration_loop",
      pain_points          |-> "pain_points",
      recommended_actions  |-> "actions",
      evaluation           |-> "evaluation" ]

\* the output fields that no longer hold what CallState was created with
Written(cs) == {f \in DOMAIN Writer : cs[f] # CallState(cs.raw_transcript)[f]}

\* C21, the step: an output field changes only in a step of its own agent,
\* the agent invoked last, and only from the value it was created with; the
\* transcript, the call id and the start time do not change at all
C21_Step ==
    /\ \A f \in DOMAIN Writer :
          call_state'[f] # call_state[f] =>
              /\ pc \in {"agents", "evaluation"}
              /\ CurrentAgent = Writer[f]
              /\ invoked'[Len(invoked')] = Writer[f]
              /\ f \notin Written(call_state)
    /\ call_state'.raw_transcript = call_state.raw_transcript
    /\ call_state'.call_id = call_state.call_id
    /\ call_state'.start_ts = call_state.start_ts

\* C21, the state: a written field has had its agent invoked, no agent is
\* invoked twice, and a run that returns has invoked the agent of every field
C21_Once ==
    /\ \A f \in Written(call_state) : Writer[f] \in Range(invoked)
    /\ \A f \in DOMAIN Writer :
          /\ Multiplicity(invoked, Writer[f]) <= 1
          /\ pc = "done" => Multiplicity(invoked, Writer[f]) = 1

\* C21: within one pipeline run each output field is assigned once, by its
\* designated agent only (cleaning: cleaned_transcript and utterances;
\* entities: entities; summarization: summary; sentiment: sentiment;
\* frustration_loop: frustration_timeline; pain_points: pain_points; actions:
\* recommended_actions; evaluation: evaluation), and is unchanged by every
\* later agent; raw_transcript, call_id and start_ts are never modified after
\* creation.
C21_FieldsWrittenOnce == []C21_Once /\ [][C21_Step]_vars

\* a run with both capabilities that returned with every output field written
C21_EveryFieldWritten ==
    /\ pc = "done"
    /\ tools.llm /\ tools.cleaner
    /\ Written(call_state) = DOMAIN Writer
    /\ \A i \in 1..Len(cap_log) : ~cap_log[i].resp.raises

-----------------------------------------------------------------------------
(* Properties of the messages of a run *)

\* the messages the agents send: type, sender, recipient
Channels ==
    { [type |-> "entity_summary",      from |-> "entities",         to |-> "summarization"],
      [type |-> "sentiment_signal",    from |-> "sentiment",        to |-> "actions"],
      [type |-> "frustration_summary", from |-> "frustration_loop", to |-> "pain_points"] }

\* the place of an agent in the canonical execution order
Position(name) == CHOOSE i \in 1..Len(CanonicalRun) : CanonicalRun[i] = name

\* the messages of one type in the log of cs
OfType(cs, type) ==
    LET is_type(m) == m.type = type
    IN SelectSeq(cs.messages, is_type)

\* the payload an agent that takes the last message of a channel gets
LastPayload(cs, ch) ==
    LET msgs == get_messages_for_agent(cs, ch.to, JStr(ch.type))
    IN IF msgs # <<>> THEN msgs[Len(msgs)].payload ELSE EmptyDict

\* C22, the log: every message goes from its producer to an agent later in
\* the canonical order, at most one per channel, with the producer's output
C22_Log ==
    /\ \A i \in 1..Len(call_state.messages) :
          LET m == call_state.messages[i]
          IN /\ [type |-> m.type, from |-> m.from, to |-> m.to] \in Channels
             /\ Position(m.from) < Position(m.to)
             /\ m.from \in Range(invoked)
    /\ \A ch \in Channels :
          /\ Len(OfType(call_state, ch.type)) <= 1
          /\ get_messages_for_agent(call_state, ch.to, JStr(ch.type))
                = OfType(call_state, ch.type)
    /\ \A m \in Range(OfType(call_state, "entity_summary")) :
          m.payload.product = DictGet(call_state.entities.d, "product")
    /\ \A m \in Range(OfType(call_state, "sentiment_signal")) :
          m.payload.sentiment = call_state.sentiment
    /\ \A m \in Range(OfType(call_state, "frustration_summary")) :
          m.payload.overall_level = _overall_level(call_state.frustration_timeline)

\* C22, the use: what summarization and pain_points put in their prompts is
\* the payload of the producer's message, or {} when it sent none
C22_Used ==
    \A i \in 1..Len(cap_log) :
        /\ cap_log[i].agent = "summarization" =>
              cap_log[i].prompt.entity_summary
                 = LastPayload(call_state, CHOOSE ch \in Channels : ch.to = "summarization")
        /\ cap_log[i].agent = "pain_points" =>
              cap_log[i].prompt.frustration_summary
                 = LastPayload(call_state, CHOOSE ch \in Channels : ch.to = "pain_points")

\* C22, the step: once the consumer of a channel has been invoked, no message
\* of the channel is added
C22_Step ==
    \A ch \in Channels :
        ch.to \in Range(invoked') =>
            OfType(call_state', ch.type) = OfType(call_state, ch.type)

\* C22: every message appended during a pipeline run is addressed to an
\* agent that comes strictly later than its sender in the canonical execution
\* order (entities to summarization, sentiment to actions, frustration_loop
\* to pain_points); and when summarization or pain_points queries the bus,
\* any entity_summary or frustration_summary message of this run is already
\* in the log and the last matching message it uses is the one sent by that
\* producer in this run.
C22_MessagesFlowForward == [](C22_Log /\ C22_Used) /\ [][C22_Step]_vars

\* a run that returned after summarization and pain_points put the messages
\* of entities and frustration_loop in their prompts
C22_BothMessagesUsed ==
    /\ pc = "done"
    /\ Len(call_state.messages) = 3
    /\ \E i, j \in 1..Len(cap_log) :
          /\ cap_log[i].agent = "summarization"
          /\ cap_log[i].prompt.entity_summary # EmptyDict
          /\ cap_log[j].agent = "pain_points"
          /\ cap_log[j].prompt.frustration_summary # EmptyDict

-----------------------------------------------------------------------------
(* Properties of the capability calls *)

\* C23, the state: the calls counted are the calls made, at most one for an
\* invoked agent, and no more than the steps counted once the run returns
C23_Calls ==
    /\ call_state.tool_calls = Len(cap_log)
    /\ Len(cap_log) <= Len(invoked)
    /\ \A i, j \in 1..Len(cap_log) : cap_log[i].agent = cap_log[j].agent => i = j
    /\ pc = "done" => call_state.tool_calls <= call_state.step_count

\* C23, the step: tool_calls goes up by one, in the step that invokes the
\* agent, or not at all; the step after the answer, failed or not, makes no
\* call
C23_Step ==
    /\ call_state'.tool_calls \in {call_state.tool_calls, call_state.tool_calls + 1}
    /\ call_state'.tool_calls # call_state.tool_calls =>
          /\ invoked' = Append(invoked, CurrentAgent)
          /\ waiting'
    /\ waiting => /\ call_state'.tool_calls = call_state.tool_calls
                  /\ Len(cap_log') = Len(cap_log)
                  /\ ~waiting'

\* C23: no agent repeats a capability call: a single agent invocation raises
\* tool_calls by at most 1, and after a failed call it falls back instead of
\* calling again, so when run_pipeline returns tool_calls <= step_count.
C23_NoRepeatedCall == []C23_Calls /\ [][C23_Step]_vars

\* a run that returned after eight calls, some failed and some answered
C23_EightCallsSomeFailed ==
    /\ pc = "done"
    /\ call_state.tool_calls = 8
    /\ call_state.step_count = 8
    /\ \E i, j \in 1..Len(cap_log) : cap_log[i].resp.raises /\ ~cap_log[j].resp.raises

-----------------------------------------------------------------------------
(* Properties of the labels *)

\* the answer the LLM gave to an agent of the run, if it has answered
AnswerTo(name) ==
    {cap_log[i].resp : i \in {k \in 1..Len(cap_log) : cap_log[k].agent = name}}

\* C24: whatever the LLM returns, in the CallState returned by run_pipeline
\* every frustration_timeline record has level low, medium or high, and
\* sentiment is one of very_negative, negative, neutral, positive,
\* very_positive, mixed, unknown.
C24_LabelsNormalised ==
    /\ \A i \in 1..Len(call_state.frustration_timeline) :
          call_state.frustration_timeline[i].level \in {"low", "medium", "high"}
    /\ "sentiment" \in Range(invoked) /\ ~(waiting /\ CurrentAgent = "sentiment") =>
          call_state.sentiment \in { "very_negative", "negative", "neutral",
                                     "positive", "very_positive", "mixed", "unknown" }
    /\ pc = "done" => "sentiment" \in Range(invoked)

\* a run that returned after the LLM gave a sentence for the sentiment and
\* the levels LOW and angry for the two utterances
C24_UnknownWordsFromLLM ==
    /\ pc = "done"
    /\ AnswerTo("sentiment") = {SENTIMENT_PROSE}
    /\ AnswerTo("frustration_loop") = {FRUSTRATION_LIST}
    /\ call_state.sentiment = "unknown"
    /\ Len(call_state.frustration_timeline) = 2
    /\ call_state.frustration_timeline[1].level = "low"
    /\ call_state.frustration_timeline[2].level = "high"

-----------------------------------------------------------------------------
(* Properties of the evaluation snapshot *)

\* C25: in the CallState returned by run_pipeline, evaluation.tool_calls and
\* evaluation.tool_successes equal the final tool_calls and tool_successes,
\* but evaluation.step_count equals the final step_count minus 1, because the
\* evaluation agent takes the metrics snapshot before it increments
\* step_count for itself.
C25_SnapshotBeforeOwnStep ==
    pc = "done" =>
        /\ call_state.evaluation.tool_calls = call_state.tool_calls
        /\ call_state.evaluation.tool_successes = call_state.tool_successes
        /\ call_state.evaluation.step_count = call_state.step_count - 1
        /\ call_state.evaluation.step_count = Len(AGENT_EXECUTION_ORDER)

\* a run that returned with eight steps counted, seven of them in the
\* snapshot, and the evaluation agent's own call and success in it
C25_OwnCallInSnapshot ==
    /\ pc = "done"
    /\ call_state.step_count = 8
    /\ call_state.evaluation.step_count = 7
    /\ call_state.evaluation.tool_calls = 8
    /\ call_state.evaluation.tool_successes = 8

-----------------------------------------------------------------------------
(* Properties of the counters of the memory *)

\* the three tables of counts
CountTables == {"sentiment_counts", "pain_point_counts", "product_issue_counts"}

\* the sum of the counts of a table
RECURSIVE TotalCount(_)
TotalCount(d) ==
    IF DOMAIN d = {} THEN 0
    ELSE LET k == CHOOSE key \in DOMAIN d : TRUE
         IN d[k] + TotalCount([key \in DOMAIN d \ {k} |-> d[key]])

\* C27, the state: every call folded is counted under one sentiment and under
\* at most one product, and a stored count is at least 1
C27_Sums ==
    /\ memory.total_calls = Len(folded)
    /\ TotalCount(memory.sentiment_counts) = memory.total_calls
    /\ TotalCount(memory.product_issue_counts) <= memory.total_calls
    /\ \A table \in CountTables :
          \A key \in DOMAIN memory[table] : memory[table][key] >= 1

\* C27, the step: no key is dropped and no count goes down
C27_Step ==
    /\ memory'.total_calls >= memory.total_calls
    /\ \A table \in CountTables :
          \A key \in DOMAIN memory[table] :
              /\ key \in DOMAIN memory'[table]
              /\ memory'[table][key] >= memory[table][key]

\* C27: after any sequence of update_memory_from_call operations on a fresh
\* MemoryState, the sum of all sentiment_counts values equals total_calls,
\* the sum of all product_issue_counts values is at most total_calls, every
\* stored count is at least 1, and no per-key count and no total_calls ever
\* decreases.
C27_CountersAddUp == []C27_Sums /\ [][C27_Step]_vars

\* three calls folded, two under one sentiment, one of them without a
\* sentiment of its own and one without a product
C27_ThreeCallsFewerProducts ==
    /\ memory.total_calls = 3
    /\ Count(memory.sentiment_counts, "unknown") = 1
    /\ Count(memory.sentiment_counts, "negative") = 2
    /\ TotalCount(memory.product_issue_counts) = 1

-----------------------------------------------------------------------------
(* Properties of the memory over repeated runs *)

\* the CallStates folded into the memory so far, the returned one included
FoldedRuns ==
    IF pc = "done" /\ update_memory THEN Append(folded, call_state) ELSE folded

\* the values of a score in the runs folded so far, in the order folded
ScoresOfRuns(key) == [i \in 1..Len(FoldedRuns) |-> FoldedRuns[i].evaluation[key]]

\* every run folded so far carries the three scores, and total_calls counts
\* exactly these runs
C26_AllScoresCarried ==
    /\ memory.total_calls = Len(FoldedRuns)
    /\ \A i \in 1..Len(FoldedRuns) :
          \A k \in 1..Len(SCORE_KEYS) :
              /\ SCORE_KEYS[k] \in DOMAIN FoldedRuns[i].evaluation
              /\ FoldedRuns[i].evaluation[SCORE_KEYS[k]] \in {FZero, FHalf, FOne}

\* C26 as stated: starting from a fresh MemoryState, after any sequence of
\* completed run_pipeline calls with update_memory = true and the evaluation
\* agent registered, every folded CallState carries all three scores, so each
\* of avg_faithfulness, avg_coverage and avg_consistency equals the
\* arithmetic mean of that score over exactly the total_calls folded runs.
C26_MeanOverFoldedRuns ==
    /\ C26_AllScoresCarried
    /\ \A k \in 1..Len(SCORE_KEYS) :
          FoldedRuns # <<>> =>
              Average(memory, SCORE_KEYS[k]) = Mean(ScoresOfRuns(SCORE_KEYS[k]))

\* C26: starting from a fresh MemoryState, after any sequence of completed
\* run_pipeline calls with update_memory = true and the evaluation agent
\* registered, every folded CallState carries all three scores (LLM-derived
\* or the default 1.0), and each of avg_faithfulness, avg_coverage and
\* avg_consistency is the arithmetic mean of that score over exactly the
\* total_calls folded runs up to the rounding of the float operations: the
\* double nearest the mean, or fewer places from it than there were runs.
C26_MeanOverFoldedRunsRounded ==
    /\ C26_AllScoresCarried
    /\ \A k \in 1..Len(SCORE_KEYS) :
          FoldedRuns # <<>> =>
              /\ Exact(Average(memory, SCORE_KEYS[k])) = Mean(ScoresOfRuns(SCORE_KEYS[k]))
              /\ Abs(Ulps(Average(memory, SCORE_KEYS[k]))) < Len(FoldedRuns)

\* three runs returned, the evaluator scoring faithfulness 0.0, 0.5 and 0.0:
\* the memory holds 0.16666666666666669, the mean is 0.16666666666666666
C26_ThreeRunsOffByOnePlace ==
    /\ pc = "done"
    /\ ScoresOfRuns("faithfulness_score") = <<FZero, FHalf, FZero>>
    /\ memory.total_calls = 3
    /\ memory.avg_faithfulness = <<1, 6, 1>>

=============================================================================
